---------------------------- MODULE Spec2Model ----------------------------
(***************************************************************************)
(* Model of the flow_preprocessor batch pipeline:                          *)
(*   - Status            (preprocessing_logic/status.py)                   *)
(*   - Preprocessor      (preprocessing_logic/preprocess.py)               *)
(*   - ImageDownloader   (preprocessing_logic/fetch_images.py)             *)
(*   - ImageProcessor    (preprocessing_logic/process_images.py)           *)
(*   - PageParser, Line  (preprocessing_logic/parse_textlines.py)          *)
(*                                                                         *)
(* Optional Python values are sequences: <<>> is None, <<v>> is v.         *)
(* Python strings are sequences of one-character strings.                  *)
(* A PreprocessState is a record of the tracker fields the code reads and  *)
(* writes; a model_dump followed by a new PreprocessState is a plain copy, *)
(* and the filenames_* fields are the lists the code appends to.           *)
(***************************************************************************)
EXTENDS Integers, Sequences, FiniteSets, TLC

VARIABLES
    pc,                  \* position of the batch: "idle", "loop", "done", "raised"
    stop_on_fail,        \* argument of Preprocessor.preprocess
    page_xml_list,       \* files_fetched, the list handed to preprocess_xml_file_list
    i,                   \* number of loop iterations of preprocess_xml_file_list finished
    processed,           \* per handled document: its name and what preprocess_single_xml_file raised
    raised,              \* exception that left preprocess_xml_file_list ("None" if none)
    state,               \* Status.state (statusManager.state)
    progressStatus,      \* Preprocessor.progressStatus, the last snapshot returned
    db,                  \* the document last written by db.preprocess_status.update_one
    image_processor,     \* ImageProcessor: failed_processing, too_short
    image_downloader,    \* ImageDownloader: failed_downloads, failed_processing, successes
    manifest_process,    \* <process_id>_image_process_failed_files.txt
    manifest_download,   \* <process_id>_image_download_failed_files.txt
    line,                \* a Line under test: line_text and custom_attributes['abbrev']
    result,              \* what the last Line operation returned or raised
    xml_file,            \* the XML file a PageParser is constructed on
    parser,              \* the PageParser instance (<<>> before construction)
    coordinates,         \* a list of Coordinate under test
    returned,            \* what the last operation driven on its own returned or raised
    preprocessor,        \* the ZipPreprocessor or HuggingFacePreprocessor (<<>> before construction)
    task,                \* the coroutine preprocess(): where it waits and how often it has run
    thread,              \* the worker thread of asyncio.to_thread: what it runs or has raised
    events,              \* the calls made on the factory, the converters and the segmenter
    document,            \* the call of preprocess_single_xml_file: its page and its position in the loop
    gt_dict,             \* gt_dict of that call: line names and texts in the order they were put in
    out_path             \* the output directory: the names of the line images and the rows of gt.txt

orchVars == <<pc, stop_on_fail, page_xml_list, i, processed, raised, state,
              progressStatus, db, image_processor, image_downloader,
              manifest_process, manifest_download>>
lineVars == <<line, result>>
parserVars == <<xml_file, parser, coordinates, returned>>
processorVars == <<preprocessor, task, thread, events>>
documentVars == <<document, gt_dict, out_path>>
vars == <<orchVars, lineVars, parserVars, processorVars, documentVars>>

----------------------------------------------------------------------------
(* Bounds *)

MaxDocs == 3

MaxFailedDownloads == 1

MaxLines == 2

MaxTextLen == 3

MaxSpans == 2

----------------------------------------------------------------------------
(* Helpers *)

Range(seq) == {seq[k] : k \in DOMAIN seq}

XmlName(k) == <<"xml", k>>

ImagePath(k) == <<"img", k>>

\* An XML file that github_manager.fetch_files could not download
NotFetched(k) == <<"not_fetched", k>>

----------------------------------------------------------------------------
(* models.py: StateEnum and the PreprocessStateBase defaults *)

IN_PROGRESS == "in_progress"

FAILED == "failed"

DONE == "done"

PreprocessState ==
    [progress |-> 0,
     state |-> IN_PROGRESS,
     files_successful |-> 0,
     files_failed_process |-> 0,
     files_failed_download |-> 0,
     files_total |-> 0,
     filenames_successful |-> <<>>,
     filenames_failed_process |-> <<>>,
     filenames_failed_download |-> <<>>]

----------------------------------------------------------------------------
(* exceptions.py and the built-in exceptions the pipeline lets through *)

CaughtExceptions ==
    {"ParseTextLinesException", "ImageProcessException", "ImageFetchException"}

----------------------------------------------------------------------------
(* status.py *)

\* Status.initialize_status: sets the totals and the initial download failures
initialize_status(s, files_fetched, files_download_failed) ==
    [s EXCEPT !.files_total = Len(files_fetched),
              !.files_failed_download = Len(files_download_failed),
              !.filenames_failed_download = files_download_failed,
              !.state = IN_PROGRESS]

\* Progress computed from the zero-based loop index
Progress_zero_based(current_item_index, files_total) ==
    IF files_total > 0 THEN ((current_item_index - 1) * 100) \div files_total ELSE 0

\* int((current_item_index / files_total) * 100), 0 when files_total is 0.
\* The quotient is computed in integers; it equals the code's double-precision
\* value for every files_total below 50.
Progress(current_item_index, files_total) ==
    IF files_total > 0 THEN (current_item_index * 100) \div files_total ELSE 0

\* update_progress with the success branch not closed by an else: a failure is
\* counted as a success as well
update_progress_counts_twice(s, current_item_index, current_item_name, success, exception, state_enum) ==
    IF current_item_index # <<>> /\ current_item_name # <<>>
    THEN [s EXCEPT !.progress = Progress(current_item_index[1], s.files_total),
                   !.files_successful = @ + 1,
                   !.filenames_successful = Append(@, current_item_name[1]),
                   !.files_failed_process = IF success THEN @ ELSE @ + 1,
                   !.filenames_failed_process =
                       IF success THEN @ ELSE Append(@, current_item_name[1]),
                   !.state = IF state_enum # "None" THEN state_enum ELSE @]
    ELSE s

\* Status.update_progress, up to the assignment of runtime_seconds
update_progress(s, current_item_index, current_item_name, success, exception, state_enum) ==
    IF current_item_index # <<>> /\ current_item_name # <<>>
    THEN LET s1 == [s EXCEPT !.progress = Progress(current_item_index[1], s.files_total)]
             s2 == IF success
                   THEN [s1 EXCEPT !.files_successful = @ + 1,
                                   !.filenames_successful = Append(@, current_item_name[1])]
                   ELSE LET f == [s1 EXCEPT !.files_failed_process = @ + 1,
                                            !.filenames_failed_process = Append(@, current_item_name[1])]
                        IN  IF exception = "ImageFetchException"
                            THEN [f EXCEPT !.files_failed_download = @ + 1,
                                           !.filenames_failed_download = Append(@, current_item_name[1])]
                            ELSE f
         IN  IF state_enum # "None" THEN [s2 EXCEPT !.state = state_enum] ELSE s2
    ELSE s

----------------------------------------------------------------------------
(* parse_textlines.py: Line *)

Min(a, b) == IF a < b THEN a ELSE b

Max(a, b) == IF a > b THEN a ELSE b

\* The position a Python slice bound n denotes in a string of length len
slice_bound(n, len) ==
    IF n < 0 THEN Max(n + len, 0) ELSE Min(n, len)

\* text[:n]
slice_to(text, n) == SubSeq(text, 1, slice_bound(n, Len(text)))

\* text[n-1:] in place of text[n:]
slice_from_one_early(text, n) ==
    SubSeq(text, Max(slice_bound(n, Len(text)), 1), Len(text))

\* text[n:]
slice_from(text, n) == SubSeq(text, slice_bound(n, Len(text)) + 1, Len(text))

Digits == <<"0", "1", "2", "3", "4", "5", "6", "7", "8", "9">>

IsDigit(c) == \E k \in DOMAIN Digits : Digits[k] = c

DigitValue(c) == (CHOOSE k \in DOMAIN Digits : Digits[k] = c) - 1

RECURSIVE digits_value(_, _)
digits_value(str, acc) ==
    IF str = <<>> THEN acc
    ELSE digits_value(Tail(str), 10 * acc + DigitValue(Head(str)))

\* int(v) for an attribute value v: an int ([int |-> n]) is returned as it is, a string
\* ([str |-> chars]) is read as an optional sign followed by decimal digits; anything
\* else raises ValueError
py_int(v) ==
    IF "int" \in DOMAIN v THEN [exception |-> "None", value |-> v.int]
    ELSE LET str == v.str
             signed == str # <<>> /\ Head(str) \in {"-", "+"}
             body == IF signed THEN Tail(str) ELSE str
         IN  IF body # <<>> /\ \A k \in DOMAIN body : IsDigit(body[k])
             THEN [exception |-> "None",
                   value |-> IF signed /\ Head(str) = "-"
                             THEN 0 - digits_value(body, 0) ELSE digits_value(body, 0)]
             ELSE [exception |-> "ValueError", value |-> 0]

\* The loop of Line.expand_abbreviations from abbreviation k on, with the text and
\* add_offset built so far
RECURSIVE expand_loop(_, _, _, _)
expand_loop(abbreviations, k, text, add_offset) ==
    IF k > Len(abbreviations) THEN [exception |-> "None", value |-> text]
    ELSE LET abbreviation == abbreviations[k]
         IN  IF \/ "offset" \notin DOMAIN abbreviation
                \/ "length" \notin DOMAIN abbreviation
                \/ "expansion" \notin DOMAIN abbreviation
             THEN expand_loop(abbreviations, k + 1, text, add_offset)
             ELSE LET offset == py_int(abbreviation["offset"])
                      length == py_int(abbreviation["length"])
                      expansion == abbreviation["expansion"]
                  IN  IF offset.exception # "None" THEN [exception |-> offset.exception, value |-> text]
                      ELSE IF length.exception # "None" THEN [exception |-> length.exception, value |-> text]
                      ELSE expand_loop(
                               abbreviations, k + 1,
                               slice_to(text, offset.value + add_offset) \o expansion
                                   \o slice_from(text, offset.value + add_offset + length.value),
                               add_offset + Len(expansion) - length.value)

\* Line.expand_abbreviations
expand_abbreviations(l) ==
    IF "abbrev" \in DOMAIN l.custom_attributes
    THEN expand_loop(l.custom_attributes["abbrev"], 1, l.line_text, 0)
    ELSE [exception |-> "None", value |-> l.line_text]

\* get_line_text without the test of expand_abbrev: the text is always expanded
get_line_text_always_expands(l, expand_abbrev) == expand_abbreviations(l)

\* Line.get_line_text
get_line_text(l, expand_abbrev) ==
    IF ~expand_abbrev THEN [exception |-> "None", value |-> l.line_text]
    ELSE expand_abbreviations(l)

----------------------------------------------------------------------------
(* The documents of a batch.  A document is described by what each stage   *)
(* of preprocess_single_xml_file meets when it handles it.                 *)

Documents ==
    {d \in [xml     : {"ok", "malformed", "missing"},
            meta    : {"transkribus", "escriptorium", "absent"},
            lines   : {"ok", "bad_points"},
            nlines  : 0..MaxLines,
            fetch   : {"ok", "http_error", "write_error"},
            extract : 0..MaxLines,
            save    : 0..MaxLines,
            gt      : {"ok", "error"}] :
        d.extract <= d.nlines /\ d.save <= d.nlines}

----------------------------------------------------------------------------
(* parse_textlines.py: PageParser as the orchestrator uses it *)

\* PageParser.__init__ -> parse_xml_file: every error becomes ParseTextLinesException
parse_xml_file(d) ==
    IF d.xml = "ok" THEN "None" ELSE "ParseTextLinesException"

\* PageParser.get_metadata -> get_image_url: the xpath result is indexed with [0]
get_image_url(d) ==
    IF d.meta = "absent" THEN "IndexError" ELSE "None"

\* PageParser.process_lines_from_xml_file: every error becomes ParseTextLinesException
process_lines_from_xml_file(d) ==
    IF d.lines = "ok" THEN "None" ELSE "ParseTextLinesException"

----------------------------------------------------------------------------
(* fetch_images.py *)

ImageDownloader == [failed_downloads |-> <<>>, failed_processing |-> <<>>, successes |-> <<>>]

\* ImageDownloader.fetch_image with _request_image_via_url: a failed HTTP request is
\* logged and swallowed by _request_image_via_url, an error while writing the file
\* reaches the last handler of fetch_image
fetch_image(dl, k, d) ==
    IF d.fetch = "write_error"
    THEN [exception |-> "RuntimeError",
          downloader |-> [dl EXCEPT !.failed_processing = Append(@, ImagePath(k))]]
    ELSE [exception |-> "None",
          downloader |-> [dl EXCEPT !.successes = Append(@, ImagePath(k))]]

----------------------------------------------------------------------------
(* process_images.py *)

ImageProcessor == [failed_processing |-> <<>>, too_short |-> <<>>]

\* ImageProcessor.extract_line_from_image / crop_line_from_image as called for one
\* line: a failure appends the image path and raises ImageProcessException
extract_line(ip, k, fails) ==
    IF fails
    THEN [exception |-> "ImageProcessException",
          processor |-> [ip EXCEPT !.failed_processing = Append(@, ImagePath(k))]]
    ELSE [exception |-> "None", processor |-> ip]

----------------------------------------------------------------------------
(* preprocess.py *)

\* The loop over page.lines of preprocess_single_xml_file: line j is extracted, then
\* saved; the first failure ends the loop
RECURSIVE line_loop(_, _, _, _)
line_loop(ip, k, d, j) ==
    IF j > d.nlines THEN [exception |-> "None", processor |-> ip]
    ELSE LET x == extract_line(ip, k, d.extract = j)
         IN  IF x.exception # "None" THEN x
             ELSE IF d.save = j THEN [exception |-> "OSError", processor |-> x.processor]
             ELSE line_loop(x.processor, k, d, j + 1)

\* Preprocessor.preprocess_single_xml_file on document k: the exception that leaves it
\* ("None" when it returns) and the collaborators as it leaves them
preprocess_single_xml_file(ip, dl, k, d) ==
    LET same(e) == [exception |-> e, processor |-> ip, downloader |-> dl]
    IN  IF parse_xml_file(d) # "None" THEN same(parse_xml_file(d))
        ELSE IF get_image_url(d) # "None" THEN same(get_image_url(d))
        ELSE IF process_lines_from_xml_file(d) # "None" THEN same(process_lines_from_xml_file(d))
        ELSE LET f == fetch_image(dl, k, d)
             IN  IF f.exception # "None"
                 THEN [exception |-> f.exception, processor |-> ip, downloader |-> f.downloader]
                 ELSE LET l == line_loop(ip, k, d, 1)
                      IN  IF l.exception # "None"
                          THEN [exception |-> l.exception, processor |-> l.processor,
                                downloader |-> f.downloader]
                          ELSE [exception |-> IF d.gt = "error" THEN "OSError" ELSE "None",
                                processor |-> l.processor, downloader |-> f.downloader]

\* Preprocessor._save_failed_files(out_path, 'both'): both files are rewritten
save_failed_files(ip, dl) ==
    [process |-> [written |-> TRUE, lines |-> ip.failed_processing],
     download |-> [written |-> TRUE, lines |-> dl.failed_downloads]]

\* handle_outcome with the failure of a continuing batch left unrecorded
handle_outcome_drops_failure(s, idx, name, e, sof) ==
    IF e = "None"
    THEN update_progress(s, <<idx>>, <<name>>, TRUE, "None", "None")
    ELSE IF e \in CaughtExceptions /\ sof
    THEN update_progress([s EXCEPT !.state = FAILED], <<idx>>, <<name>>, FALSE, e, FAILED)
    ELSE s

\* What one iteration of preprocess_xml_file_list does with the tracker once
\* preprocess_single_xml_file has returned or raised e
handle_outcome(s, idx, name, e, sof) ==
    IF e = "None"
    THEN update_progress(s, <<idx>>, <<name>>, TRUE, "None", "None")
    ELSE IF e \in CaughtExceptions
    THEN IF sof
         THEN update_progress([s EXCEPT !.state = FAILED], <<idx>>, <<name>>, FALSE, e, FAILED)
         ELSE update_progress(s, <<idx>>, <<name>>, FALSE, e, "None")
    ELSE s

\* Whether the exception e of a document leaves preprocess_xml_file_list
propagates(e, sof) ==
    e # "None" /\ (e \notin CaughtExceptions \/ sof)

NoFile == [written |-> FALSE, lines |-> <<>>]

\* The coroutine preprocess() is not running and has been called runs times
Idle(runs) == [pc |-> "idle", runs |-> runs]

\* No call of preprocess_single_xml_file is running, n have been made
NoDocument(n) == [pc |-> "idle", n |-> n]

Init ==
    /\ pc = "idle"
    /\ stop_on_fail = TRUE
    /\ page_xml_list = <<>>
    /\ i = 0
    /\ processed = <<>>
    /\ raised = "None"
    /\ state = PreprocessState
    /\ progressStatus = PreprocessState
    /\ db = <<>>
    /\ image_processor = ImageProcessor
    /\ image_downloader = ImageDownloader
    /\ manifest_process = NoFile
    /\ manifest_download = NoFile
    /\ line = [line_text |-> <<>>, custom_attributes |-> <<>>]
    /\ result = <<>>
    /\ xml_file = <<>>
    /\ parser = <<>>
    /\ coordinates = <<>>
    /\ returned = <<>>
    /\ preprocessor = <<>>
    /\ task = Idle(0)
    /\ thread = <<>>
    /\ events = <<>>
    /\ document = NoDocument(0)
    /\ gt_dict = <<>>
    /\ out_path = [images |-> {}, gt_txt |-> <<>>]

\* Preprocessor.preprocess up to the call of preprocess_xml_file_list
Preprocess ==
    /\ pc = "idle"
    /\ \E sof \in BOOLEAN, n \in 0..MaxDocs, m \in 0..MaxFailedDownloads :
         LET files_fetched == [k \in 1..n |-> XmlName(k)]
             files_download_failed == [j \in 1..m |-> NotFetched(j)]
         IN  /\ stop_on_fail' = sof
             /\ page_xml_list' = files_fetched
             /\ state' = initialize_status(PreprocessState, files_fetched, files_download_failed)
             /\ progressStatus' = state'
    /\ image_processor' = ImageProcessor
    /\ image_downloader' = ImageDownloader
    /\ i' = 0
    /\ pc' = "loop"
    /\ UNCHANGED <<processed, raised, db, manifest_process, manifest_download, lineVars, parserVars, processorVars, documentVars>>

\* One iteration of the loop of preprocess_xml_file_list, its finally block included
ProcessDocument(d) ==
    /\ pc = "loop"
    /\ i < Len(page_xml_list)
    /\ LET name == page_xml_list[i + 1]
           r == preprocess_single_xml_file(image_processor, image_downloader, i + 1, d)
           files == save_failed_files(r.processor, r.downloader)
       IN  /\ image_processor' = r.processor
           /\ image_downloader' = r.downloader
           /\ processed' = Append(processed, [name |-> name, exception |-> r.exception])
           /\ state' = handle_outcome(state, i + 1, name, r.exception, stop_on_fail)
           /\ IF r.exception \in CaughtExceptions \cup {"None"}
              THEN progressStatus' = state' /\ db' = <<state'>>
              ELSE UNCHANGED <<progressStatus, db>>
           /\ manifest_process' = files.process
           /\ manifest_download' = files.download
           /\ IF propagates(r.exception, stop_on_fail)
              THEN pc' = "raised" /\ raised' = r.exception
              ELSE pc' = "loop" /\ raised' = raised
    /\ i' = i + 1
    /\ UNCHANGED <<stop_on_fail, page_xml_list, lineVars, parserVars, processorVars, documentVars>>

\* The statements of preprocess_xml_file_list after the loop
Finish ==
    /\ pc = "loop"
    /\ i = Len(page_xml_list)
    /\ state' = update_progress(state, <<>>, <<>>, TRUE, "None", DONE)
    /\ db' = <<state'>>
    /\ progressStatus' = [state' EXCEPT !.state = DONE]
    /\ pc' = "done"
    /\ UNCHANGED <<stop_on_fail, page_xml_list, i, processed, raised, image_processor,
                   image_downloader, manifest_process, manifest_download, lineVars, parserVars, processorVars, documentVars>>

Next ==
    \/ Preprocess
    \/ \E d \in Documents : ProcessDocument(d)
    \/ Finish

Spec == Init /\ [][Next]_vars

----------------------------------------------------------------------------
(* Status driven on its own: initialize_status once, then update_progress   *)
(* for one item after the other with any outcome and state, or with no item *)

StatusInitialize ==
    /\ pc = "idle"
    /\ \E n \in 0..MaxDocs, m \in 0..MaxFailedDownloads :
         LET files_fetched == [k \in 1..n |-> XmlName(k)]
             files_download_failed == [j \in 1..m |-> NotFetched(j)]
         IN  /\ page_xml_list' = files_fetched
             /\ state' = initialize_status(state, files_fetched, files_download_failed)
             /\ progressStatus' = state'
    /\ pc' = "status"
    /\ UNCHANGED <<stop_on_fail, i, processed, raised, db, image_processor, image_downloader,
                   manifest_process, manifest_download, lineVars, parserVars, processorVars, documentVars>>

StatusUpdate ==
    /\ pc = "status"
    /\ Len(processed) < MaxDocs
    /\ \E e \in CaughtExceptions \cup {"None"}, state_enum \in {"None", FAILED, DONE} :
         LET idx == Len(processed) + 1
         IN  /\ state' = update_progress(state, <<idx>>, <<XmlName(idx)>>, e = "None", e, state_enum)
             /\ processed' = Append(processed, [name |-> XmlName(idx), exception |-> e])
    /\ progressStatus' = state'
    /\ db' = <<state'>>
    /\ UNCHANGED <<pc, stop_on_fail, page_xml_list, i, raised, image_processor, image_downloader,
                   manifest_process, manifest_download, lineVars, parserVars, processorVars, documentVars>>

StatusTouch ==
    /\ pc = "status"
    /\ \E state_enum \in {"None", FAILED, DONE} :
         state' = update_progress(state, <<>>, <<>>, TRUE, "None", state_enum)
    /\ progressStatus' = state'
    /\ db' = <<state'>>
    /\ UNCHANGED <<pc, stop_on_fail, page_xml_list, i, processed, raised, image_processor,
                   image_downloader, manifest_process, manifest_download, lineVars, parserVars, processorVars, documentVars>>

NextStatus ==
    \/ StatusInitialize
    \/ StatusUpdate
    \/ StatusTouch

SpecStatus == Init /\ [][NextStatus]_vars

----------------------------------------------------------------------------
(* Properties of the batch *)

FailedDocs == {k \in DOMAIN processed : processed[k].exception # "None"}

SucceededDocs == {k \in DOMAIN processed : processed[k].exception = "None"}

NamesOf(P(_)) ==
    LET sel == SelectSeq(processed, P) IN [k \in DOMAIN sel |-> sel[k].name]

Terminated == pc \in {"done", "raised"}

C2_FirstFailureRecorded ==
    (stop_on_fail /\ pc = "raised") =>
        /\ state.state = FAILED
        /\ state.files_failed_process = 1
        /\ state.filenames_failed_process = <<processed[Len(processed)].name>>
        /\ FailedDocs = {Len(processed)}
        /\ progressStatus.state # DONE

\* C3: when every document has been handled without an abort, the state held by the
\* status tracker and persisted by update_progress is DONE
C3_TrackerDone ==
    pc = "done" => (state.state = DONE /\ db # <<>> /\ db[1].state = DONE)

\* C4: with stop_on_fail = false no failure of a document, at whatever stage, ends
\* preprocess_xml_file_list with an exception, and the remaining documents are processed
C4_NeverRaises ==
    ~stop_on_fail =>
        /\ pc # "raised"
        /\ (pc = "done" => Len(processed) = Len(page_xml_list))

\* C5: when the batch ends every document whose processing failed is listed in the
\* processing-failure manifest
C5_FailedDocsInManifest ==
    Terminated =>
        \A k \in FailedDocs :
            \/ XmlName(k) \in Range(manifest_process.lines)
            \/ ImagePath(k) \in Range(manifest_process.lines)

\* C6: whenever preprocess_xml_file_list terminates, both failure manifests have been
\* written and hold the failure lists as they stand
C6_ManifestsWritten ==
    Terminated =>
        /\ manifest_process.written
        /\ manifest_process.lines = image_processor.failed_processing
        /\ manifest_download.written
        /\ manifest_download.lines = image_downloader.failed_downloads

InitialDownloadFailures ==
    Cardinality({k \in DOMAIN state.filenames_failed_download :
                    state.filenames_failed_download[k][1] = "not_fetched"})

FetchFailures ==
    {k \in DOMAIN processed : processed[k].exception = "ImageFetchException"}

C8_ProgressInv ==
    LET k == state.files_successful + state.files_failed_process
        t == state.files_total
    IN  /\ progressStatus.progress = state.progress
        /\ t = 0 => state.progress = 0
        /\ t > 0 => /\ state.progress * t <= 100 * k
                    /\ 100 * k < (state.progress + 1) * t
        /\ (pc = "done" /\ t > 0) => state.progress = 100
        /\ (pc # "idle") => t = Len(page_xml_list)

----------------------------------------------------------------------------
(* Line operations applied to a line drawn from a bounded set of lines *)

Alphabet == <<"a", "b", "c", "d", "e", "f", "g", "h">>

Texts == {SubSeq(Alphabet, 1, n) : n \in 0..MaxTextLen}

SpanLengths == {0, 1, 2}

Expansions == {<<>>, <<"X", "Y">>}

Encodings == {"int", "str"}

\* The decimal string of n
Decimal(n) ==
    IF n < 10 THEN <<Digits[n + 1]>> ELSE <<Digits[(n \div 10) + 1], Digits[(n % 10) + 1]>>

\* An attribute value holding n, as an int or as a decimal string
Value(enc, n) == IF enc = "int" THEN [int |-> n] ELSE [str |-> Decimal(n)]

\* The spans with all three keys that lie inside the longest text
WellFormedSpans(enc) ==
    {[offset |-> Value(enc, p[1]), length |-> Value(enc, p[2]), expansion |-> e] :
        p \in {q \in (0..MaxTextLen) \X SpanLengths : q[1] + q[2] <= MaxTextLen},
        e \in Expansions}

MalformedSpans(enc) ==
    {[length |-> Value(enc, 1), expansion |-> <<"X", "Y">>],
     [offset |-> Value(enc, 0), expansion |-> <<"X", "Y">>],
     [offset |-> Value(enc, 0), length |-> Value(enc, 1)]}

NonNumericSpans ==
    {[offset |-> [str |-> <<"x">>], length |-> [str |-> <<"1">>], expansion |-> <<"X", "Y">>]}

Spans(enc) ==
    WellFormedSpans(enc) \cup MalformedSpans(enc)
        \cup (IF enc = "str" THEN NonNumericSpans ELSE {})

SpanLists == UNION {[1..n -> Spans(enc)] : n \in 0..MaxSpans, enc \in Encodings}

Lines ==
    {[line_text |-> t, custom_attributes |-> <<>>] : t \in Texts}
        \cup {[line_text |-> t, custom_attributes |-> [abbrev |-> a]] :
                 t \in Texts, a \in SpanLists}

InitLine ==
    /\ pc = "idle"
    /\ stop_on_fail = TRUE
    /\ page_xml_list = <<>>
    /\ i = 0
    /\ processed = <<>>
    /\ raised = "None"
    /\ state = PreprocessState
    /\ progressStatus = PreprocessState
    /\ db = <<>>
    /\ image_processor = ImageProcessor
    /\ image_downloader = ImageDownloader
    /\ manifest_process = NoFile
    /\ manifest_download = NoFile
    /\ line \in Lines
    /\ result = <<>>
    /\ xml_file = <<>>
    /\ parser = <<>>
    /\ coordinates = <<>>
    /\ returned = <<>>
    /\ preprocessor = <<>>
    /\ task = Idle(0)
    /\ thread = <<>>
    /\ events = <<>>
    /\ document = NoDocument(0)
    /\ gt_dict = <<>>
    /\ out_path = [images |-> {}, gt_txt |-> <<>>]

Returned(op, r) == <<[op |-> op, exception |-> r.exception, value |-> r.value]>>

ExpandAbbreviations ==
    /\ result' = Returned("expand_abbreviations", expand_abbreviations(line))
    /\ UNCHANGED <<orchVars, line, parserVars, processorVars, documentVars>>

GetLineText ==
    /\ \E expand_abbrev \in BOOLEAN :
         result' = Returned(IF expand_abbrev THEN "get_line_text_expand" ELSE "get_line_text",
                            get_line_text(line, expand_abbrev))
    /\ UNCHANGED <<orchVars, line, parserVars, processorVars, documentVars>>

NextLine ==
    \/ ExpandAbbreviations
    \/ GetLineText

SpecLine == InitLine /\ [][NextLine]_vars

----------------------------------------------------------------------------
(* Properties of Line *)

HasAbbrev == "abbrev" \in DOMAIN line.custom_attributes

Abbrev == line.custom_attributes["abbrev"]

WellFormed(span) == DOMAIN span = {"offset", "length", "expansion"}

\* The number an attribute value stands for, when it is a number of the input range
Denotes(v, n) == \E enc \in Encodings : v = Value(enc, n)

Numeric(span) ==
    /\ \E o \in 0..MaxTextLen : Denotes(span["offset"], o)
    /\ \E l \in SpanLengths : Denotes(span["length"], l)

OffsetOf(span) == CHOOSE o \in 0..MaxTextLen : Denotes(span["offset"], o)

LengthOf(span) == CHOOSE l \in SpanLengths : Denotes(span["length"], l)

\* text with the characters offset+1 .. offset+length replaced by expansion
Replaced(text, offset, length, expansion) ==
    SubSeq(text, 1, offset) \o expansion \o SubSeq(text, offset + length + 1, Len(text))

Expanded == result # <<>> /\ result[1].op \in {"expand_abbreviations", "get_line_text_expand"}

\* C10: for a line with exactly one well-formed span, offset and length given as ints
\* or as decimal strings, 0 <= offset and offset + length <= len(text),
\* expand_abbreviations and get_line_text(expand_abbrev=True) return
\* text[:offset] + expansion + text[offset+length:]
C10_SingleSpan ==
    (/\ Expanded
     /\ HasAbbrev
     /\ Len(Abbrev) = 1
     /\ WellFormed(Abbrev[1])
     /\ Numeric(Abbrev[1])
     /\ OffsetOf(Abbrev[1]) + LengthOf(Abbrev[1]) <= Len(line.line_text))
    => /\ result[1].exception = "None"
       /\ result[1].value = Replaced(line.line_text, OffsetOf(Abbrev[1]), LengthOf(Abbrev[1]),
                                     Abbrev[1]["expansion"])

C10_Witness ==
    /\ Expanded
    /\ result[1].op = "get_line_text_expand"
    /\ line.line_text = <<"a", "b", "c">>
    /\ HasAbbrev
    /\ Abbrev = <<[offset |-> [str |-> <<"1">>], length |-> [str |-> <<"1">>],
                  expansion |-> <<"X", "Y">>]>>
    /\ result[1].value = <<"a", "X", "Y", "c">>

\* The spans of the line that have all three keys
GoodSpans == {k \in DOMAIN Abbrev : WellFormed(Abbrev[k])}

\* Spans k and m cover disjoint parts of the text and start at different offsets
Disjoint(k, m) ==
    \/ OffsetOf(Abbrev[k]) + LengthOf(Abbrev[k]) <= OffsetOf(Abbrev[m])
          /\ OffsetOf(Abbrev[k]) < OffsetOf(Abbrev[m])
    \/ OffsetOf(Abbrev[m]) + LengthOf(Abbrev[m]) <= OffsetOf(Abbrev[k])
          /\ OffsetOf(Abbrev[m]) < OffsetOf(Abbrev[k])

\* The text with each span of S replaced, the rightmost span first, so that the
\* offsets of the spans still to be replaced are offsets of the original text
RECURSIVE ReplaceAll(_, _)
ReplaceAll(text, S) ==
    IF S = {} THEN text
    ELSE LET k == CHOOSE x \in S : \A y \in S : OffsetOf(Abbrev[y]) <= OffsetOf(Abbrev[x])
         IN  ReplaceAll(Replaced(text, OffsetOf(Abbrev[k]), LengthOf(Abbrev[k]),
                                 Abbrev[k]["expansion"]),
                        S \ {k})

SeveralDisjointSpans ==
    /\ HasAbbrev
    /\ \A k \in GoodSpans :
          /\ Numeric(Abbrev[k])
          /\ OffsetOf(Abbrev[k]) + LengthOf(Abbrev[k]) <= Len(line.line_text)
    /\ \A k, m \in GoodSpans : k # m => Disjoint(k, m)

\* C9: on a line with several well-formed, non-overlapping spans expand_abbreviations
\* returns the original text with each span's substring replaced by its expansion,
\* whatever order the spans are listed in, malformed spans being skipped
C9_AnyListingOrder ==
    (Expanded /\ SeveralDisjointSpans)
    => /\ result[1].exception = "None"
       /\ result[1].value = ReplaceAll(line.line_text, GoodSpans)


\* C11: expand_abbreviations returns line_text unchanged and does not raise when
\* custom_attributes has no 'abbrev' group, when the group is empty or when every
\* span of it lacks one of offset/length/expansion; get_line_text(expand_abbrev=False)
\* returns line_text unchanged for every line
C11_NothingToExpand ==
    /\ (Expanded /\ (~HasAbbrev \/ GoodSpans = {}))
          => result[1].exception = "None" /\ result[1].value = line.line_text
    /\ (result # <<>> /\ result[1].op = "get_line_text")
          => result[1].exception = "None" /\ result[1].value = line.line_text

C11_Witness ==
    /\ result # <<>>
    /\ result[1].op = "expand_abbreviations"
    /\ line.line_text = <<"a", "b", "c">>
    /\ HasAbbrev
    /\ Len(Abbrev) = 2
    /\ GoodSpans = {}
    /\ result[1].value = <<"a", "b", "c">>


----------------------------------------------------------------------------
(* parse_textlines.py: Coordinate *)

Coordinate(x, y) == [x |-> x, y |-> y]

\* min(values) / max(values): ValueError on an empty list
py_min(values) ==
    IF values = <<>> THEN [exception |-> "ValueError", value |-> <<>>]
    ELSE [exception |-> "None",
          value |-> CHOOSE v \in Range(values) : \A w \in Range(values) : v <= w]

py_max(values) ==
    IF values = <<>> THEN [exception |-> "ValueError", value |-> <<>>]
    ELSE [exception |-> "None",
          value |-> CHOOSE v \in Range(values) : \A w \in Range(values) : v >= w]

\* Coordinate.min_x
min_x(coords) == py_min([k \in DOMAIN coords |-> coords[k].x])

\* Coordinate.max_x
max_x(coords) == py_max([k \in DOMAIN coords |-> coords[k].x])

\* Coordinate.min_y
min_y(coords) == py_min([k \in DOMAIN coords |-> coords[k].y])

\* Coordinate.max_y
max_y(coords) == py_max([k \in DOMAIN coords |-> coords[k].y])

\* Coordinate.get_width
get_width(coords) ==
    LET lo == min_x(coords)
        hi == max_x(coords)
    IN  IF lo.exception # "None" THEN lo
        ELSE IF hi.exception # "None" THEN hi
        ELSE [exception |-> "None", value |-> hi.value - lo.value]

\* get_bbox with the corners given as (min_x, max_x, min_y, max_y)
get_bbox_x_before_y(coords) ==
    LET x0 == min_x(coords)
        x1 == max_x(coords)
        y0 == min_y(coords)
        y1 == max_y(coords)
    IN  IF x0.exception # "None" THEN x0
        ELSE [exception |-> "None", value |-> <<x0.value, x1.value, y0.value, y1.value>>]

\* Coordinate.get_bbox
get_bbox(coords) ==
    LET x0 == min_x(coords)
        x1 == max_x(coords)
        y0 == min_y(coords)
        y1 == max_y(coords)
    IN  IF x0.exception # "None" THEN x0
        ELSE IF x1.exception # "None" THEN x1
        ELSE IF y0.exception # "None" THEN y0
        ELSE IF y1.exception # "None" THEN y1
        ELSE [exception |-> "None", value |-> <<x0.value, y0.value, x1.value, y1.value>>]

----------------------------------------------------------------------------
(* Python string operations used by PageParser *)

\* The index of the j-th sep of str; 0 for j = 0 and Len(str) + 1 past the last one
sep_index(str, sep, j) ==
    LET seps == {k \in DOMAIN str : str[k] = sep}
    IN  IF j = 0 THEN 0
        ELSE IF j > Cardinality(seps) THEN Len(str) + 1
        ELSE CHOOSE k \in seps : Cardinality({m \in seps : m < k}) = j - 1

\* str.split(sep) for a one-character sep: the pieces between consecutive seps, one
\* more than there are seps
split(str, sep) ==
    [j \in 1..(Cardinality({k \in DOMAIN str : str[k] = sep}) + 1) |->
        SubSeq(str, sep_index(str, sep, j - 1) + 1, sep_index(str, sep, j) - 1)]

\* str.split(): the pieces between runs of blanks, none of them empty
split_blank(str) == SelectSeq(split(str, " "), LAMBDA piece : piece # <<>>)

\* str.strip(): the string from its first to its last character that is not a blank
strip(str) ==
    LET inked == {k \in DOMAIN str : str[k] # " "}
    IN  IF inked = {} THEN <<>>
        ELSE SubSeq(str, CHOOSE k \in inked : \A m \in inked : k <= m,
                         CHOOSE k \in inked : \A m \in inked : k >= m)

\* sep in str
contains(str, sep) == \E k \in DOMAIN str : str[k] = sep


----------------------------------------------------------------------------
(* parse_textlines.py: PageParser, the extraction of one TextLine element.   *)
(* An element or attribute that may be absent is an optional value: <<>>     *)
(* when absent, <<v>> when present.  A TextLine is a record                  *)
(*   id       the id attribute                                               *)
(*   unicode  the TextEquiv/Unicode element, holding its optional text       *)
(*   coords   the Coords element, holding its optional points attribute      *)
(*   baseline the Baseline element, holding its optional points attribute    *)
(*   custom   the matches of the pattern name{body} in the custom attribute, *)
(*            each a record of name and body                                 *)

\* PageParser.get_line_text_string
get_line_text_string(text_line) ==
    IF text_line.unicode # <<>>
    THEN IF text_line.unicode[1] # <<>>
         THEN [exception |-> "None", value |-> strip(text_line.unicode[1][1])]
         ELSE [exception |-> "None", value |-> <<>>]
    ELSE [exception |-> "None", value |-> <<>>]

\* Coordinate(int(p.split(",")[0]), int(p.split(",")[1])) for one point p
parse_point(p) ==
    LET parts == split(p, ",")
        x == py_int([str |-> parts[1]])
    IN  IF x.exception # "None" THEN x
        ELSE IF Len(parts) < 2 THEN [exception |-> "IndexError", value |-> <<>>]
        ELSE LET y == py_int([str |-> parts[2]])
             IN  IF y.exception # "None" THEN y
                 ELSE [exception |-> "None", value |-> Coordinate(x.value, y.value)]

\* The list comprehension over points_list from point k on
RECURSIVE parse_points(_, _, _)
parse_points(points_list, k, out) ==
    IF k > Len(points_list) THEN [exception |-> "None", value |-> out]
    ELSE LET c == parse_point(points_list[k])
         IN  IF c.exception # "None" THEN c
             ELSE parse_points(points_list, k + 1, Append(out, c.value))

\* PageParser.get_coordinates
get_coordinates(text_line) ==
    IF text_line.coords = <<>> THEN [exception |-> "AttributeError", value |-> <<>>]
    ELSE IF text_line.coords[1] = <<>> THEN [exception |-> "AttributeError", value |-> <<>>]
    ELSE parse_points(split_blank(text_line.coords[1][1]), 1, <<>>)

\* PageParser.get_baseline
get_baseline(text_line) ==
    IF text_line.baseline = <<>> THEN [exception |-> "None", value |-> <<>>]
    ELSE IF text_line.baseline[1] = <<>> THEN [exception |-> "AttributeError", value |-> <<>>]
    ELSE parse_points(split_blank(text_line.baseline[1][1]), 1, <<>>)

\* dict[k] = v
dict_set(dict, k, v) == [x \in DOMAIN dict \cup {k} |-> IF x = k THEN v ELSE dict[x]]

\* The loop over the stripped segments of one body from segment k on
RECURSIVE value_loop(_, _, _)
value_loop(values, k, value_dict) ==
    IF k > Len(values) THEN [exception |-> "None", value |-> value_dict]
    ELSE IF ~contains(values[k], ":") THEN value_loop(values, k + 1, value_dict)
    ELSE LET parts == split(values[k], ":")
         IN  IF Len(parts) # 2 THEN [exception |-> "ValueError", value |-> value_dict]
             ELSE value_loop(values, k + 1, dict_set(value_dict, parts[1], parts[2]))

\* The loop over the matches from match k on
RECURSIVE match_loop(_, _, _)
match_loop(matches, k, attributes) ==
    IF k > Len(matches) THEN [exception |-> "None", value |-> attributes]
    ELSE LET key == matches[k].name
             segments == split(matches[k].body, ";")
             values == [j \in DOMAIN segments |-> strip(segments[j])]
             value_dict == value_loop(values, 1, <<>>)
         IN  IF value_dict.exception # "None"
             THEN [exception |-> value_dict.exception, value |-> <<>>]
             ELSE match_loop(matches, k + 1,
                      dict_set(attributes, key,
                               Append(IF key \in DOMAIN attributes THEN attributes[key] ELSE <<>>,
                                      value_dict.value)))

\* PageParser.get_custom_attribute
get_custom_attribute(text_line) == match_loop(text_line.custom, 1, <<>>)

\* PageParser.get_line_id
get_line_id(text_line) == text_line.id


----------------------------------------------------------------------------
(* parse_textlines.py: PageParser on a parsed document.                      *)
(* A file is a record of its path, what et.parse meets (status) and, when    *)
(* it parses, its namespace URI and its tree.  A tree is a record            *)
(*   page        the Page element with its optional imageFilename, imageURL  *)
(*   creator     the Metadata/Creator element, holding its optional text     *)
(*   transkribus the Metadata/TranskribusMetadata element, holding imgUrl    *)
(*   text_lines  the TextLine elements in document order                     *)
(* A PageParser is a record of failed_processing, root, namespace_uri and    *)
(* xml_filename.  Strings that are only compared are TLA+ strings.           *)

PAGE_2019 == "http://schema.primaresearch.org/PAGE/gts/pagecontent/2019-07-15"

PAGE_2013 == "http://schema.primaresearch.org/PAGE/gts/pagecontent/2013-07-15"

ParseTextLinesException == "ParseTextLinesException"

\* os.path.basename of a path given as <<directory, name>>
basename(path) == path[2]

\* PageParser.__init__ before the call of parse_xml_file
NewPageParser(f) ==
    [failed_processing |-> <<>>, namespace_uri |-> <<>>, root |-> <<>>,
     xml_filename |-> basename(f.path)]

\* PageParser.get_image_file_name
get_image_file_name(p) ==
    IF p.root = <<>> THEN [exception |-> "AttributeError", value |-> <<>>]
    ELSE IF p.root[1].page = <<>> THEN [exception |-> "AttributeError", value |-> <<>>]
    ELSE [exception |-> "None", value |-> p.root[1].page[1].imageFilename]

\* parse_xml_file whose last handler does not append to failed_processing
parse_xml_file_unexpected_not_recorded(p, f) ==
    IF f.status # "ok"
    THEN [exception |-> ParseTextLinesException,
          parser |-> [p EXCEPT !.failed_processing = Append(@, f.path)]]
    ELSE LET parsed == [p EXCEPT !.root = <<f.tree>>, !.namespace_uri = <<f.namespace_uri>>]
         IN  IF get_image_file_name(parsed).exception # "None"
             THEN [exception |-> ParseTextLinesException, parser |-> parsed]
             ELSE [exception |-> "None", parser |-> parsed]

\* PageParser.parse_xml_file: the exception raised and the instance as it is left
PageParser_parse_xml_file(p, f) ==
    IF f.status # "ok"
    THEN [exception |-> ParseTextLinesException,
          parser |-> [p EXCEPT !.failed_processing = Append(@, f.path)]]
    ELSE LET parsed == [p EXCEPT !.root = <<f.tree>>, !.namespace_uri = <<f.namespace_uri>>]
         IN  IF get_image_file_name(parsed).exception # "None"
             THEN [exception |-> ParseTextLinesException,
                   parser |-> [parsed EXCEPT !.failed_processing = Append(@, f.path)]]
             ELSE [exception |-> "None", parser |-> parsed]

\* PageParser.get_creator: the text (<<>> for None)
get_creator(p) ==
    IF p.root = <<>> THEN [exception |-> "AttributeError", value |-> <<>>]
    ELSE IF p.root[1].creator # <<>>
    THEN [exception |-> "None", value |-> p.root[1].creator[1]]
    ELSE [exception |-> "None", value |-> <<"">>]

\* get_image_url that takes the creator alone as the mark of an eScriptorium document
get_image_url_by_creator_only(p) ==
    LET creator == get_creator(p)
    IN  IF creator.exception # "None" THEN creator
        ELSE IF creator.value = <<"escriptorium">>
        THEN IF p.root[1].page = <<>> THEN [exception |-> "AttributeError", value |-> <<>>]
             ELSE [exception |-> "None", value |-> p.root[1].page[1].imageURL]
        ELSE IF p.root[1].transkribus = <<>> THEN [exception |-> "IndexError", value |-> <<>>]
        ELSE [exception |-> "None", value |-> p.root[1].transkribus[1]]

\* PageParser.get_image_url: the URL (<<>> for None)
PageParser_get_image_url(p) ==
    LET creator == get_creator(p)
    IN  IF creator.exception # "None" THEN creator
        ELSE IF /\ creator.value # <<>>
                /\ creator.value = <<"escriptorium">>
                /\ p.namespace_uri = <<PAGE_2019>>
        THEN IF p.root[1].page = <<>> THEN [exception |-> "AttributeError", value |-> <<>>]
             ELSE [exception |-> "None", value |-> p.root[1].page[1].imageURL]
        ELSE IF p.root[1].transkribus = <<>> THEN [exception |-> "IndexError", value |-> <<>>]
        ELSE [exception |-> "None", value |-> p.root[1].transkribus[1]]

\* PageParser.get_metadata
get_metadata(p) ==
    LET creator == get_creator(p)
        image_url == PageParser_get_image_url(p)
    IN  IF creator.exception # "None" THEN creator
        ELSE IF image_url.exception # "None" THEN image_url
        ELSE [exception |-> "None",
              value |-> <<[creator |-> creator.value, image_url |-> image_url.value]>>]

\* The loop with break in the place of continue: a skipped line ends the extraction
RECURSIVE text_line_loop_breaks_on_skip(_, _, _, _)
text_line_loop_breaks_on_skip(text_lines, k, line_document, line_list) ==
    IF k > Len(text_lines) THEN [exception |-> "None", value |-> line_list]
    ELSE LET text_line == text_lines[k]
             line_text == get_line_text_string(text_line)
             line_coordinates == get_coordinates(text_line)
             line_baseline_points == get_baseline(text_line)
             custom_attributes == get_custom_attribute(text_line)
         IN  IF line_coordinates.exception # "None" THEN line_coordinates
             ELSE IF line_baseline_points.exception # "None" THEN line_baseline_points
             ELSE IF custom_attributes.exception # "None" THEN custom_attributes
             ELSE IF \/ line_text.value = <<>>
                     \/ line_coordinates.value = <<>>
                     \/ line_baseline_points.value = <<>>
             THEN [exception |-> "None", value |-> line_list]
             ELSE text_line_loop_breaks_on_skip(text_lines, k + 1, line_document,
                      Append(line_list,
                             [line_number |-> get_line_id(text_line),
                              line_text |-> line_text.value,
                              line_document |-> line_document,
                              line_coordinates |-> line_coordinates.value,
                              line_baseline |-> line_baseline_points.value,
                              custom_attributes |-> custom_attributes.value]))

RECURSIVE text_line_loop(_, _, _, _)

\* The body of the loop of process_lines_from_xml_file for TextLine k, given what the
\* five extractions returned or raised
text_line_step(text_lines, k, line_document, line_list, line_number, line_text, line_coordinates, line_baseline_points, custom_attributes) ==
    IF line_text.exception # "None" THEN line_text
    ELSE IF line_coordinates.exception # "None" THEN line_coordinates
    ELSE IF line_baseline_points.exception # "None" THEN line_baseline_points
    ELSE IF custom_attributes.exception # "None" THEN custom_attributes
    ELSE IF \/ line_text.value = <<>>
            \/ line_coordinates.value = <<>>
            \/ line_baseline_points.value = <<>>
    THEN text_line_loop(text_lines, k + 1, line_document, line_list)
    ELSE text_line_loop(text_lines, k + 1, line_document,
             Append(line_list,
                    [line_number |-> line_number,
                     line_text |-> line_text.value,
                     line_document |-> line_document,
                     line_coordinates |-> line_coordinates.value,
                     line_baseline |-> line_baseline_points.value,
                     custom_attributes |-> custom_attributes.value]))

\* The loop of process_lines_from_xml_file from TextLine k on
text_line_loop(text_lines, k, line_document, line_list) ==
    IF k > Len(text_lines) THEN [exception |-> "None", value |-> line_list]
    ELSE text_line_step(text_lines, k, line_document, line_list,
                        get_line_id(text_lines[k]),
                        get_line_text_string(text_lines[k]),
                        get_coordinates(text_lines[k]),
                        get_baseline(text_lines[k]),
                        get_custom_attribute(text_lines[k]))

\* process_lines_from_xml_file without the append to failed_processing in its handlers
process_lines_forgets_failure(p) ==
    LET line_document == get_image_file_name(p)
        failed == [exception |-> ParseTextLinesException, value |-> <<>>, parser |-> p]
    IN  IF line_document.exception # "None" THEN failed
        ELSE LET lines == text_line_loop(p.root[1].text_lines, 1, line_document.value, <<>>)
             IN  IF lines.exception # "None" THEN failed
                 ELSE [exception |-> "None", value |-> <<lines.value>>, parser |-> p]

\* The handlers of process_lines_from_xml_file: line_document is recorded and
\* ParseTextLinesException raised
process_lines_except(p, line_document) ==
    [exception |-> ParseTextLinesException, value |-> <<>>,
     parser |-> [p EXCEPT !.failed_processing = Append(@, line_document)]]

\* process_lines_from_xml_file once the loop has ended with lines
process_lines_return(p, line_document, lines) ==
    IF lines.exception # "None" THEN process_lines_except(p, line_document)
    ELSE [exception |-> "None", value |-> <<lines.value>>, parser |-> p]

\* process_lines_from_xml_file once get_image_file_name has ended with line_document
process_lines_try(p, line_document) ==
    IF line_document.exception # "None" THEN process_lines_except(p, <<>>)
    ELSE process_lines_return(p, line_document.value,
             text_line_loop(p.root[1].text_lines, 1, line_document.value, <<>>))

\* PageParser.process_lines_from_xml_file: the exception raised, the list returned
\* (<<>> when it raises, <<line_list>> otherwise) and the instance as it is left
PageParser_process_lines_from_xml_file(p) == process_lines_try(p, get_image_file_name(p))

\* The handler of get_page: a ParseTextLinesException is recorded under xml_filename
\* and raised again, any other exception passes through
get_page_except(e, q) ==
    IF e = ParseTextLinesException
    THEN [exception |-> e, value |-> <<>>,
          parser |-> [q EXCEPT !.failed_processing = Append(@, q.xml_filename)]]
    ELSE [exception |-> e, value |-> <<>>, parser |-> q]

\* get_page once its three arguments of Page(...) have been evaluated
get_page_return(lines, image_file_name, metadata) ==
    IF metadata.exception # "None" THEN get_page_except(metadata.exception, lines.parser)
    ELSE [exception |-> "None",
          value |-> <<[image_file_name |-> image_file_name.value,
                       lines |-> lines.value[1],
                       metadata |-> metadata.value[1]]>>,
          parser |-> lines.parser]

\* get_page once get_image_file_name and process_lines_from_xml_file have ended
get_page_try(p, image_file_name, lines) ==
    IF image_file_name.exception # "None" THEN get_page_except(image_file_name.exception, p)
    ELSE IF lines.exception # "None" THEN get_page_except(lines.exception, lines.parser)
    ELSE get_page_return(lines, image_file_name, get_metadata(lines.parser))

\* PageParser.get_page
get_page(p) ==
    get_page_try(p, get_image_file_name(p), PageParser_process_lines_from_xml_file(p))


----------------------------------------------------------------------------
(* PageParser driven on its own: an instance is constructed on a file, then  *)
(* its methods are called in any order                                       *)

MaxFailures == 1

None == <<>>

Some(v) == <<v>>

\* TextLine elements without their id
TextLineKinds ==
    <<\* " ab", one point in Coords and one in Baseline
      [unicode |-> Some(Some(<<" ", "a", "b">>)),
       coords |-> Some(Some(<<"1", ",", "2">>)),
       baseline |-> Some(Some(<<"3", ",", "4">>)),
       custom |-> <<>>],
      \* two points each and an abbrev group
      [unicode |-> Some(Some(<<"a">>)),
       coords |-> Some(Some(<<"1", ",", "2", " ", "5", ",", "0">>)),
       baseline |-> Some(Some(<<"1", ",", "2", " ", " ", "3", ",", "4">>)),
       custom |-> <<[name |-> "abbrev",
                    body |-> <<"o", "f", "f", "s", "e", "t", ":", "0", ";", " ", "l", "e", "n", "g", "t", "h", ":", "1", ";", " ", "e", "x", "p", "a", "n", "s", "i", "o", "n", ":", "X", "Y", ";">>]>>],
      \* blank text
      [unicode |-> Some(Some(<<" ">>)),
       coords |-> Some(Some(<<"1", ",", "2">>)),
       baseline |-> Some(Some(<<"3", ",", "4">>)),
       custom |-> <<>>],
      \* a Unicode element without text
      [unicode |-> Some(None),
       coords |-> Some(Some(<<"1", ",", "2">>)),
       baseline |-> Some(Some(<<"3", ",", "4">>)),
       custom |-> <<>>],
      \* points="" in Coords
      [unicode |-> Some(Some(<<"a">>)),
       coords |-> Some(Some(<<>>)),
       baseline |-> Some(Some(<<"3", ",", "4">>)),
       custom |-> <<>>],
      \* no Baseline element
      [unicode |-> Some(Some(<<"a">>)),
       coords |-> Some(Some(<<"1", ",", "2">>)),
       baseline |-> None,
       custom |-> <<>>],
      \* a point of Coords that is not an integer
      [unicode |-> Some(Some(<<"a">>)),
       coords |-> Some(Some(<<"1", ",", "2", " ", "3", ",", "x">>)),
       baseline |-> Some(Some(<<"3", ",", "4">>)),
       custom |-> <<>>],
      \* no Coords element
      [unicode |-> Some(Some(<<"a">>)),
       coords |-> None,
       baseline |-> Some(Some(<<"3", ",", "4">>)),
       custom |-> <<>>],
      \* a point of Baseline without a comma
      [unicode |-> Some(Some(<<"a">>)),
       coords |-> Some(Some(<<"1", ",", "2">>)),
       baseline |-> Some(Some(<<"3", "4">>)),
       custom |-> <<>>] >>

\* The TextLine lists of a document: line k has id k
TextLineLists ==
    UNION {[1..n -> DOMAIN TextLineKinds] : n \in 0..MaxLines}

TextLines(kinds) ==
    [k \in DOMAIN kinds |->
        [id |-> k, unicode |-> TextLineKinds[kinds[k]].unicode,
         coords |-> TextLineKinds[kinds[k]].coords,
         baseline |-> TextLineKinds[kinds[k]].baseline,
         custom |-> TextLineKinds[kinds[k]].custom]]

Creators == {None, Some(None), Some(Some("escriptorium")), Some(Some("Transkribus"))}

TranskribusMetadata == {None, Some(None), Some(Some("imgUrl of TranskribusMetadata"))}

Page == [imageFilename |-> Some("page.jpg"), imageURL |-> Some("imageURL of Page")]

XmlFile(ns, c, t, kinds) ==
    [path |-> <<"in", "page.xml">>, status |-> "ok", namespace_uri |-> ns,
     tree |-> [page |-> Some(Page), creator |-> c, transkribus |-> t,
               text_lines |-> TextLines(kinds)]]

\* The files that parse and have a Page element: every metadata with at most one
\* TextLine, and every TextLine list in a Transkribus document
XmlFiles ==
    {XmlFile(ns, c, t, kinds) :
        ns \in {PAGE_2013, PAGE_2019}, c \in Creators, t \in TranskribusMetadata,
        kinds \in {k \in TextLineLists : Len(k) <= 1}}
    \cup {XmlFile(PAGE_2013, Some(Some("Transkribus")),
                  Some(Some("imgUrl of TranskribusMetadata")), kinds) :
             kinds \in TextLineLists}

EmptyTree == [page |-> None, creator |-> None, transkribus |-> None, text_lines |-> <<>>]

\* A file that is not well-formed XML, a path without a file, a file without a Page
BadFiles ==
    {[path |-> <<"in", "invalid.xml">>, status |-> "syntax_error",
      namespace_uri |-> PAGE_2013, tree |-> EmptyTree],
     [path |-> <<"in", "nonexistent.xml">>, status |-> "missing",
      namespace_uri |-> PAGE_2013, tree |-> EmptyTree],
     [path |-> <<"in", "nopage.xml">>, status |-> "ok",
      namespace_uri |-> PAGE_2013, tree |-> EmptyTree]}


InitParser ==
    /\ pc = "idle"
    /\ stop_on_fail = TRUE
    /\ page_xml_list = <<>>
    /\ i = 0
    /\ processed = <<>>
    /\ raised = "None"
    /\ state = PreprocessState
    /\ progressStatus = PreprocessState
    /\ db = <<>>
    /\ image_processor = ImageProcessor
    /\ image_downloader = ImageDownloader
    /\ manifest_process = NoFile
    /\ manifest_download = NoFile
    /\ line = [line_text |-> <<>>, custom_attributes |-> <<>>]
    /\ result = <<>>
    /\ xml_file \in {Some(f) : f \in XmlFiles \cup BadFiles}
    /\ parser = None
    /\ coordinates = <<>>
    /\ returned = <<>>
    /\ preprocessor = <<>>
    /\ task = Idle(0)
    /\ thread = <<>>
    /\ events = <<>>
    /\ document = NoDocument(0)
    /\ gt_dict = <<>>
    /\ out_path = [images |-> {}, gt_txt |-> <<>>]

Call(op, exception, value) == <<[op |-> op, exception |-> exception, value |-> value]>>

\* A call that raises is followed while failed_processing has fewer than MaxFailures
\* entries; a call that returns is always followed
Bounded(p, r) == r.exception = "None" \/ Len(p.failed_processing) < MaxFailures

\* A call that may append to failed_processing, r being what it does
Performed(op, r, value) ==
    /\ Bounded(parser[1], r)
    /\ parser' = Some(r.parser)
    /\ returned' = Call(op, r.exception, value)
    /\ UNCHANGED <<orchVars, lineVars, xml_file, coordinates, processorVars, documentVars>>

\* A call that leaves the instance as it is, r being what it returns or raises
Queried(op, r) ==
    /\ returned' = Call(op, r.exception, r.value)
    /\ UNCHANGED <<orchVars, lineVars, xml_file, parser, coordinates, processorVars, documentVars>>

\* PageParser(xml_file) once __init__ has called parse_xml_file
Constructed(r) ==
    /\ parser' = IF r.exception = "None" THEN Some(r.parser) ELSE None
    /\ returned' = Call("PageParser", r.exception, None)
    /\ UNCHANGED <<orchVars, lineVars, xml_file, coordinates, processorVars, documentVars>>

\* PageParser(xml_file): the instance exists only when __init__ returns
Construct ==
    /\ parser = None
    /\ Constructed(PageParser_parse_xml_file(NewPageParser(xml_file[1]), xml_file[1]))

\* parse_xml_file called on the instance, with its own file or with another one
ParseXmlFile ==
    /\ parser # None
    /\ \E f \in {xml_file[1]} \cup BadFiles :
         Performed("parse_xml_file", PageParser_parse_xml_file(parser[1], f), Some(f.path))

\* A call that may append to failed_processing and returns what r returns
PerformedAndReturned(op, r) == Performed(op, r, r.value)

ProcessLinesFromXmlFile ==
    /\ parser # None
    /\ PerformedAndReturned("process_lines_from_xml_file",
                PageParser_process_lines_from_xml_file(parser[1]))

GetPage ==
    /\ parser # None
    /\ PerformedAndReturned("get_page", get_page(parser[1]))

GetMetadata ==
    /\ parser # None
    /\ Queried("get_metadata", get_metadata(parser[1]))

GetCreator ==
    /\ parser # None
    /\ Queried("get_creator", get_creator(parser[1]))

GetImageUrl ==
    /\ parser # None
    /\ Queried("get_image_url", PageParser_get_image_url(parser[1]))

NextParser ==
    \/ Construct
    \/ ParseXmlFile
    \/ ProcessLinesFromXmlFile
    \/ GetPage
    \/ GetMetadata
    \/ GetCreator
    \/ GetImageUrl

SpecParser == InitParser /\ [][NextParser]_vars


----------------------------------------------------------------------------
(* Properties of PageParser *)

Returns(op) == returned # <<>> /\ returned[1].op = op /\ returned[1].exception = "None"

Raises(op) == returned # <<>> /\ returned[1].op = op /\ returned[1].exception # "None"

\* The TextLine elements of the document the instance holds
ParsedTextLines == parser[1].root[1].text_lines

HasText(text_line) ==
    /\ text_line.unicode # None
    /\ text_line.unicode[1] # None
    /\ \E k \in DOMAIN text_line.unicode[1][1] : text_line.unicode[1][1][k] # " "

\* The number of points of a Coords or Baseline element
NumPoints(element) ==
    IF element = None \/ element[1] = None THEN 0
    ELSE Cardinality({k \in DOMAIN element[1][1] :
                         /\ element[1][1][k] # " "
                         /\ (k = 1 \/ element[1][1][k - 1] = " ")})

Usable(text_line) ==
    HasText(text_line) /\ NumPoints(text_line.coords) > 0 /\ NumPoints(text_line.baseline) > 0

\* The ids of the usable TextLine elements in document order
UsableIds == SelectSeq([k \in DOMAIN ParsedTextLines |-> k],
                       LAMBDA k : Usable(ParsedTextLines[k]))

C12_RetainedLines ==
    Returns("process_lines_from_xml_file") =>
        LET line_list == returned[1].value[1]
        IN  /\ \A k \in DOMAIN line_list :
                  /\ line_list[k].line_text # <<>>
                  /\ Len(line_list[k].line_coordinates) >= 1
                  /\ Len(line_list[k].line_baseline) >= 1
            /\ [k \in DOMAIN line_list |-> line_list[k].line_number] = UsableIds

C12_SkipIsNoFailure ==
    (Returns("process_lines_from_xml_file"))' =>
        parser'[1].failed_processing = parser[1].failed_processing

\* C12: every Line returned by process_lines_from_xml_file has non-empty text, at
\* least one region coordinate and at least one baseline coordinate; the returned
\* lines are exactly the TextLine elements with non-blank text and at least one
\* point in Coords and in Baseline (one point is enough), in document order; a
\* call that skips lines adds nothing to failed_processing
C12_SkippedLines == []C12_RetainedLines /\ [][C12_SkipIsNoFailure]_vars

\* A blank line is skipped and the one-point line after it is retained
C12_Witness ==
    /\ Returns("process_lines_from_xml_file")
    /\ Len(ParsedTextLines) = 2
    /\ ~HasText(ParsedTextLines[1])
    /\ NumPoints(ParsedTextLines[2].coords) = 1
    /\ NumPoints(ParsedTextLines[2].baseline) = 1
    /\ Len(returned[1].value[1]) = 1
    /\ returned[1].value[1][1].line_number = 2
    /\ returned[1].value[1][1].line_text = <<"a", "b">>
    /\ returned[1].value[1][1].line_coordinates = <<Coordinate(1, 2)>>
    /\ parser[1].failed_processing = <<>>


\* Extracting this TextLine raises
ExtractionRaises(text_line) ==
    \/ get_coordinates(text_line).exception # "None"
    \/ get_baseline(text_line).exception # "None"
    \/ get_custom_attribute(text_line).exception # "None"

HasBadLine ==
    /\ parser # None
    /\ parser[1].root # None
    /\ \E k \in DOMAIN ParsedTextLines : ExtractionRaises(ParsedTextLines[k])

\* C13: when extracting one TextLine of the document raises,
\* process_lines_from_xml_file returns no list, it raises ParseTextLinesException
\* and the document's image file name is in failed_processing; get_page raises
\* as well and returns no Page
C13_WholeDocumentFails ==
    HasBadLine =>
        /\ (returned # <<>> /\ returned[1].op = "process_lines_from_xml_file")
              => /\ returned[1].exception = ParseTextLinesException
                 /\ returned[1].value = None
                 /\ get_image_file_name(parser[1]).value \in Range(parser[1].failed_processing)
        /\ (returned # <<>> /\ returned[1].op = "get_page")
              => /\ returned[1].exception = ParseTextLinesException
                 /\ returned[1].value = None
                 /\ get_image_file_name(parser[1]).value \in Range(parser[1].failed_processing)

\* The first line is extracted, the second has a point that is not an integer
C13_Witness ==
    /\ Raises("process_lines_from_xml_file")
    /\ Len(ParsedTextLines) = 2
    /\ ~ExtractionRaises(ParsedTextLines[1])
    /\ Usable(ParsedTextLines[1])
    /\ get_coordinates(ParsedTextLines[2]).exception = "ValueError"
    /\ parser[1].failed_processing = <<Some("page.jpg")>>


\* The file of this path cannot be parsed: it is not well-formed, it does not exist or
\* reading it fails in another way
Unparsable(path) ==
    \E f \in BadFiles \cup {xml_file[1]} :
        /\ f.path = path
        /\ f.status # "ok" \/ f.tree.page = None

\* C14: parse_xml_file raises ParseTextLinesException for a file that is not
\* well-formed XML, for a missing file and for any other error while reading the
\* document, and the path passed to it is then in failed_processing; the
\* constructor, which calls it, raises the same exception
C14_ParseFailureRecorded ==
    /\ (returned # <<>> /\ returned[1].op = "parse_xml_file" /\ Unparsable(returned[1].value[1]))
          => /\ returned[1].exception = ParseTextLinesException
             /\ returned[1].value[1] \in Range(parser[1].failed_processing)
    /\ (returned # <<>> /\ returned[1].op = "PageParser" /\ Unparsable(xml_file[1].path))
          => returned[1].exception = ParseTextLinesException

\* A file without Page element: the tree is read, the error comes afterwards
C14_Witness ==
    /\ Raises("parse_xml_file")
    /\ returned[1].value = Some(<<"in", "nopage.xml">>)
    /\ parser[1].root = Some(EmptyTree)
    /\ parser[1].failed_processing = <<(<<"in", "nopage.xml">>)>>


Failed == parser # None /\ parser[1].failed_processing # <<>>

\* C15: once parse_xml_file, process_lines_from_xml_file or get_page has failed on an
\* instance (its failed_processing is not empty), no later call on the instance
\* returns lines, metadata or a Page
C15_FailedIsTerminal ==
    Failed =>
        /\ ~Returns("process_lines_from_xml_file")
        /\ ~Returns("get_metadata")
        /\ ~Returns("get_page")

\* failed_processing never shrinks
C15_NeverShrinks ==
    [][(parser # None /\ parser' # None)
          => /\ Len(parser'[1].failed_processing) >= Len(parser[1].failed_processing)
             /\ SubSeq(parser'[1].failed_processing, 1, Len(parser[1].failed_processing))
                   = parser[1].failed_processing]_vars


\* The document the instance holds is an eScriptorium document of the 2019 schema
IsEscriptorium2019 ==
    /\ parser[1].root[1].creator = Some(Some("escriptorium"))
    /\ parser[1].namespace_uri = Some(PAGE_2019)

\* C16: get_image_url returns the imageURL attribute of the Page element exactly when
\* the creator is 'escriptorium' and the namespace URI is the 2019-07-15 PAGE URI;
\* for every other combination it returns imgUrl of Metadata/TranskribusMetadata,
\* and it raises when that element is absent, whatever the Page element carries
C16_ImageUrlSource ==
    (returned # <<>> /\ returned[1].op = "get_image_url") =>
        IF IsEscriptorium2019
        THEN /\ returned[1].exception = "None"
             /\ returned[1].value = parser[1].root[1].page[1].imageURL
        ELSE IF parser[1].root[1].transkribus = None
        THEN returned[1].exception # "None" /\ returned[1].value = None
        ELSE /\ returned[1].exception = "None"
             /\ returned[1].value = parser[1].root[1].transkribus[1]

\* An eScriptorium document that also has a TranskribusMetadata element
C16_Witness ==
    /\ Returns("get_image_url")
    /\ IsEscriptorium2019
    /\ parser[1].root[1].transkribus = Some(Some("imgUrl of TranskribusMetadata"))
    /\ returned[1].value = Some("imageURL of Page")


\* C17: get_creator never raises and always returns a string: the text of the
\* Metadata/Creator element when it has text, the empty string when the element is
\* absent or has no text
C17_CreatorIsString ==
    (returned # <<>> /\ returned[1].op = "get_creator") =>
        LET creator == parser[1].root[1].creator
        IN  /\ returned[1].exception = "None"
            /\ returned[1].value # None
            /\ returned[1].value =
                  IF creator # None /\ creator[1] # None THEN creator[1] ELSE Some("")


----------------------------------------------------------------------------
(* parse_textlines.py: Line.get_output_filename *)

\* [a-zA-Z]
Letters == {"a", "b", "c", "d", "e", "f", "g", "h", "i", "j", "k", "l", "m",
            "n", "o", "p", "q", "r", "s", "t", "u", "v", "w", "x", "y", "z",
            "A", "B", "C", "D", "E", "F", "G", "H", "I", "J", "K", "L", "M",
            "N", "O", "P", "Q", "R", "S", "T", "U", "V", "W", "X", "Y", "Z"}

\* The index of the last '.' of a string, 0 when it has none
last_dot(str) ==
    IF \E k \in DOMAIN str : str[k] = "."
    THEN CHOOSE k \in DOMAIN str : str[k] = "." /\ \A j \in DOMAIN str : j > k => str[j] # "."
    ELSE 0

\* The index where the pattern (\.[a-zA-Z]+)$ matches, 0 when it does not match: a
\* match is a '.' followed by letters only, up to the end of the string
match_extension(str) ==
    LET k == last_dot(str)
    IN  IF k > 0 /\ k < Len(str) /\ \A j \in (k + 1)..Len(str) : str[j] \in Letters
        THEN k ELSE 0

\* Line.get_output_filename: re.sub replaces the match by '.', the line number and
\* the match itself, and returns the string as it is when there is no match
get_output_filename(l) ==
    LET k == match_extension(l.line_document)
    IN  IF k = 0 THEN [exception |-> "None", value |-> l.line_document]
        ELSE [exception |-> "None",
              value |-> SubSeq(l.line_document, 1, k - 1) \o <<".">> \o l.line_number
                            \o SubSeq(l.line_document, k, Len(l.line_document))]

Stems == {<<"1", "1", "5", "5", "1", "4", "0", "_", "0", "0", "0", "1", "_", "4", "7", "3", "8", "9", "0", "0", "7">>,
          <<"p", "a", "g", "e">>,
          <<"s", "c", "a", "n", ".", "v", "2">>,
          <<"p">>}

Extensions == {<<"J", "P", "G">>, <<"j", "p", "g">>, <<"p", "n", "g">>, <<"j", "p", "2">>, <<"t", "i", "f", "f">>}

LineIds == {<<"0">>, <<"1">>, <<"l", "2">>, <<"r", "1", "l", "1", "0">>}

\* Image file names of the form stem.ext, and one without extension
ImageFileNames ==
    {stem \o <<".">> \o ext : stem \in Stems, ext \in Extensions} \cup {<<"R", "E", "A", "D", "M", "E">>}

NamedLines ==
    {[line_number |-> id, line_document |-> name, line_text |-> <<>>,
      custom_attributes |-> <<>>] : id \in LineIds, name \in ImageFileNames}

InitFilename ==
    /\ pc = "idle"
    /\ stop_on_fail = TRUE
    /\ page_xml_list = <<>>
    /\ i = 0
    /\ processed = <<>>
    /\ raised = "None"
    /\ state = PreprocessState
    /\ progressStatus = PreprocessState
    /\ db = <<>>
    /\ image_processor = ImageProcessor
    /\ image_downloader = ImageDownloader
    /\ manifest_process = NoFile
    /\ manifest_download = NoFile
    /\ line \in NamedLines
    /\ result = <<>>
    /\ xml_file = <<>>
    /\ parser = <<>>
    /\ coordinates = <<>>
    /\ returned = <<>>
    /\ preprocessor = <<>>
    /\ task = Idle(0)
    /\ thread = <<>>
    /\ events = <<>>
    /\ document = NoDocument(0)
    /\ gt_dict = <<>>
    /\ out_path = [images |-> {}, gt_txt |-> <<>>]

GetOutputFilename ==
    /\ result' = Returned("get_output_filename", get_output_filename(line))
    /\ UNCHANGED <<orchVars, line, parserVars, processorVars, documentVars>>

NextFilename == GetOutputFilename

SpecFilename == InitFilename /\ [][NextFilename]_vars

\* The name is of the form stem.ext: it has a '.', with something before and after it
HasExtension(name) == last_dot(name) > 1 /\ last_dot(name) < Len(name)

StemOf(name) == SubSeq(name, 1, last_dot(name) - 1)

ExtensionOf(name) == SubSeq(name, last_dot(name) + 1, Len(name))

\* C18: for every image file name of the form stem.ext and every line id,
\* get_output_filename returns stem.line_id.ext, which differs for different ids
C18_OutputFilename ==
    (result # <<>> /\ result[1].op = "get_output_filename" /\ HasExtension(line.line_document))
    => /\ result[1].exception = "None"
       /\ result[1].value = StemOf(line.line_document) \o <<".">> \o line.line_number
                                \o <<".">> \o ExtensionOf(line.line_document)


----------------------------------------------------------------------------
(* PageParser.get_custom_attribute applied to the TextLine elements of a file *)

\* Groups of a custom attribute: well-formed abbrev groups, a value with a second
\* ':', a segment without ':', unknown group names, an empty value
Groups ==
    {[name |-> "abbrev",
      body |-> <<"o", "f", "f", "s", "e", "t", ":", "0", ";", " ", "l", "e", "n", "g", "t", "h", ":", "1", ";", " ", "e", "x", "p", "a", "n", "s", "i", "o", "n", ":", "X", "Y", ";">>],
     [name |-> "abbrev",
      body |-> <<"o", "f", "f", "s", "e", "t", ":", "2", ";", "l", "e", "n", "g", "t", "h", ":", "1", ";", "e", "x", "p", "a", "n", "s", "i", "o", "n", ":", "a", ":", "b">>],
     [name |-> "readingOrder",
      body |-> <<"i", "n", "d", "e", "x", ":", "0", ";">>],
     [name |-> "unknown",
      body |-> <<"c", "o", "n", "t", "i", "n", "u", "e", "d", ";", " ", "x", ":", "1">>],
     [name |-> "abbrev",
      body |-> <<"o", "f", "f", "s", "e", "t", ":", "5", ";", " ", "l", "e", "n", "g", "t", "h", ":", "2">>],
     [name |-> "structure",
      body |-> <<"t", "y", "p", "e", ":", "h", "e", "a", "d", "i", "n", "g">>],
     [name |-> "note",
      body |-> <<"t", "e", "x", "t", ":">>]}

Customs == UNION {[1..n -> Groups] : n \in 0..MaxSpans}

\* A file with one TextLine that carries the custom attribute
CustomFiles ==
    {[path |-> <<"in", "page.xml">>, status |-> "ok", namespace_uri |-> PAGE_2013,
      tree |-> [page |-> Some(Page), creator |-> None, transkribus |-> None,
                text_lines |-> <<[id |-> 1, unicode |-> Some(Some(<<"a">>)),
                                  coords |-> Some(Some(<<"1", ",", "2">>)),
                                  baseline |-> Some(Some(<<"3", ",", "4">>)),
                                  custom |-> c]>>]] : c \in Customs}

InitCustom ==
    /\ pc = "idle"
    /\ stop_on_fail = TRUE
    /\ page_xml_list = <<>>
    /\ i = 0
    /\ processed = <<>>
    /\ raised = "None"
    /\ state = PreprocessState
    /\ progressStatus = PreprocessState
    /\ db = <<>>
    /\ image_processor = ImageProcessor
    /\ image_downloader = ImageDownloader
    /\ manifest_process = NoFile
    /\ manifest_download = NoFile
    /\ line = [line_text |-> <<>>, custom_attributes |-> <<>>]
    /\ result = <<>>
    /\ xml_file \in {Some(f) : f \in CustomFiles}
    /\ parser = None
    /\ coordinates = <<>>
    /\ returned = <<>>
    /\ preprocessor = <<>>
    /\ task = Idle(0)
    /\ thread = <<>>
    /\ events = <<>>
    /\ document = NoDocument(0)
    /\ gt_dict = <<>>
    /\ out_path = [images |-> {}, gt_txt |-> <<>>]

GetCustomAttribute ==
    /\ \E k \in DOMAIN xml_file[1].tree.text_lines :
         LET r == get_custom_attribute(xml_file[1].tree.text_lines[k])
         IN  returned' = Call("get_custom_attribute", r.exception, Some(r.value))
    /\ UNCHANGED <<orchVars, lineVars, xml_file, parser, coordinates, processorVars, documentVars>>

NextCustom == GetCustomAttribute

SpecCustom == InitCustom /\ [][NextCustom]_vars


\* The custom attribute of the TextLine of the file
CustomOf == xml_file[1].tree.text_lines[1].custom

\* The index of the first ':' of a segment that has one
FirstColon(segment) ==
    CHOOSE k \in DOMAIN segment :
        segment[k] = ":" /\ \A j \in DOMAIN segment : j < k => segment[j] # ":"

KeyOf(segment) == SubSeq(segment, 1, FirstColon(segment) - 1)

ValueOf(segment) == SubSeq(segment, FirstColon(segment) + 1, Len(segment))

\* The segments of a body that have a ':', blanks around them removed
Pairs(body) ==
    SelectSeq([j \in DOMAIN split(body, ";") |-> strip(split(body, ";")[j])],
              LAMBDA segment : contains(segment, ":"))

\* Every key of the body with the value of its last segment, split on the first ':'
ExpectedDict(body) ==
    [key \in {KeyOf(Pairs(body)[j]) : j \in DOMAIN Pairs(body)} |->
        LET last == CHOOSE j \in DOMAIN Pairs(body) :
                        /\ KeyOf(Pairs(body)[j]) = key
                        /\ \A m \in DOMAIN Pairs(body) :
                              KeyOf(Pairs(body)[m]) = key => m <= j
        IN  ValueOf(Pairs(body)[last])]

\* Every group name with the dictionaries of its groups in the order of the attribute
ExpectedAttributes(custom) ==
    [name \in {custom[k].name : k \in DOMAIN custom} |->
        LET same == SelectSeq(custom, LAMBDA g : g.name = name)
        IN  [j \in DOMAIN same |-> ExpectedDict(same[j].body)]]

\* C19: get_custom_attribute never raises; it splits every ';'-separated segment of
\* a group body on its first ':' only (key before it, the whole remainder after it
\* as value), drops segments without ':', keeps unknown group names and collects
\* the groups of one name in order in one list
C19_FirstColonSplit ==
    (returned # <<>> /\ returned[1].op = "get_custom_attribute") =>
        /\ returned[1].exception = "None"
        /\ returned[1].value = Some(ExpectedAttributes(CustomOf))

\* No value of the attribute has a second ':'
SingleColons ==
    \A k \in DOMAIN CustomOf : \A j \in DOMAIN Pairs(CustomOf[k].body) :
        ~contains(ValueOf(Pairs(CustomOf[k].body)[j]), ":")


----------------------------------------------------------------------------
(* Coordinate operations applied to a list of coordinates *)

MaxCoord == 2

MaxPoints == 2

Points == {Coordinate(x, y) : x \in (0 - 1)..MaxCoord, y \in 0..MaxCoord}

CoordinateLists == UNION {[1..n -> Points] : n \in 0..MaxPoints}

InitCoordinate ==
    /\ pc = "idle"
    /\ stop_on_fail = TRUE
    /\ page_xml_list = <<>>
    /\ i = 0
    /\ processed = <<>>
    /\ raised = "None"
    /\ state = PreprocessState
    /\ progressStatus = PreprocessState
    /\ db = <<>>
    /\ image_processor = ImageProcessor
    /\ image_downloader = ImageDownloader
    /\ manifest_process = NoFile
    /\ manifest_download = NoFile
    /\ line = [line_text |-> <<>>, custom_attributes |-> <<>>]
    /\ result = <<>>
    /\ xml_file = <<>>
    /\ parser = <<>>
    /\ coordinates \in CoordinateLists
    /\ returned = <<>>
    /\ preprocessor = <<>>
    /\ task = Idle(0)
    /\ thread = <<>>
    /\ events = <<>>
    /\ document = NoDocument(0)
    /\ gt_dict = <<>>
    /\ out_path = [images |-> {}, gt_txt |-> <<>>]

Measured(op, r) ==
    /\ returned' = Call(op, r.exception, r.value)
    /\ UNCHANGED <<orchVars, lineVars, xml_file, parser, coordinates, processorVars, documentVars>>

MinX == Measured("min_x", min_x(coordinates))

MaxX == Measured("max_x", max_x(coordinates))

MinY == Measured("min_y", min_y(coordinates))

MaxY == Measured("max_y", max_y(coordinates))

GetBbox == Measured("get_bbox", get_bbox(coordinates))

GetWidth == Measured("get_width", get_width(coordinates))

NextCoordinate ==
    \/ MinX
    \/ MaxX
    \/ MinY
    \/ MaxY
    \/ GetBbox
    \/ GetWidth

SpecCoordinate == InitCoordinate /\ [][NextCoordinate]_vars

Xs == {coordinates[k].x : k \in DOMAIN coordinates}

Ys == {coordinates[k].y : k \in DOMAIN coordinates}

\* v is a member of S and no member of S is below it
Least(v, S) == v \in S /\ \A w \in S : v <= w

\* v is a member of S and no member of S is above it
Greatest(v, S) == v \in S /\ \A w \in S : w <= v

\* C20: on a non-empty list min_x, max_x, min_y and max_y return a coordinate of some
\* point that bounds the coordinates of all points, get_bbox returns
\* (min_x, min_y, max_x, max_y) and get_width returns max_x - min_x >= 0; on an
\* empty list each of the six operations raises
C20_Extrema ==
    returned # <<>> =>
        LET op == returned[1].op
            v == returned[1].value
        IN  IF coordinates = <<>> THEN returned[1].exception # "None"
            ELSE /\ returned[1].exception = "None"
                 /\ op = "min_x" => Least(v, Xs)
                 /\ op = "max_x" => Greatest(v, Xs)
                 /\ op = "min_y" => Least(v, Ys)
                 /\ op = "max_y" => Greatest(v, Ys)
                 /\ op = "get_bbox" =>
                       /\ Len(v) = 4
                       /\ Least(v[1], Xs) /\ Least(v[2], Ys)
                       /\ Greatest(v[3], Xs) /\ Greatest(v[4], Ys)
                 /\ op = "get_width" =>
                       /\ v >= 0
                       /\ \E lo, hi \in Xs : Least(lo, Xs) /\ Greatest(hi, Xs) /\ v = hi - lo

C20_Witness ==
    /\ returned # <<>>
    /\ returned[1].op = "get_bbox"
    /\ coordinates = <<Coordinate(2, 0), Coordinate(0 - 1, 1)>>
    /\ returned[1].value = <<0 - 1, 0, 2, 1>>


----------------------------------------------------------------------------
(* PIL rasters as process_images.py uses them.  An image is its mode, its   *)
(* size and its pixels; a pixel is a colour c and an alpha a (255 in a mode *)
(* without alpha).  The pixel (x, y) of a page image has its own colour.    *)

ImageSize == 3

WHITE == <<"white", 0, 0>>

BLACK == <<"black", 0, 0>>

Pixels(w, h) == (0..(w - 1)) \X (0..(h - 1))

\* Image.new(mode, size, color)
Image_new(mode, size, color) ==
    [mode |-> mode, size |-> size, px |-> [p \in Pixels(size[1], size[2]) |-> color]]

\* The left-hand side of edge a -> b is where this is positive
cross(a, b, p) == (b[1] - a[1]) * (p[2] - a[2]) - (b[2] - a[2]) * (p[1] - a[1])

\* The pixels ImageDraw.polygon(coordinates, fill) fills: those inside or on the outline
polygon_pixels(xy, size) ==
    LET next(k) == IF k = Len(xy) THEN 1 ELSE k + 1
    IN  {p \in Pixels(size[1], size[2]) :
            \/ \A k \in DOMAIN xy : cross(xy[k], xy[next(k)], p) >= 0
            \/ \A k \in DOMAIN xy : cross(xy[k], xy[next(k)], p) <= 0}

\* ImageDraw.Draw(im).polygon(xy, fill=fill)
draw_polygon(im, xy, fill) ==
    [im EXCEPT !.px = [p \in DOMAIN im.px |->
                          IF p \in polygon_pixels(xy, im.size) THEN fill ELSE im.px[p]]]

\* im.paste(src, (0, 0), mask=mask): where the mask is 255 the pixel of src is copied
\* as it is, where it is 0 the pixel of im stays; a source without alpha is opaque
paste(im, src, mask_alpha) ==
    [im EXCEPT !.px = [p \in DOMAIN im.px |->
                          IF p \in DOMAIN src.px /\ mask_alpha[p] = 255
                          THEN src.px[p] ELSE im.px[p]]]

\* The band of an image that paste uses as the mask: the alpha band of an RGBA image,
\* the only band of an L image
mask_band(im) == [p \in DOMAIN im.px |-> im.px[p].a]

\* im.getbbox(): the bounding box of the pixels that are not transparent, None if
\* there is none
getbbox(im) ==
    LET solid == {p \in DOMAIN im.px : im.px[p].a # 0}
        xs == {p[1] : p \in solid}
        ys == {p[2] : p \in solid}
        lo(S) == CHOOSE v \in S : \A w \in S : v <= w
        hi(S) == CHOOSE v \in S : \A w \in S : v >= w
    IN  IF solid = {} THEN <<>>
        ELSE <<<<lo(xs), lo(ys), hi(xs) + 1, hi(ys) + 1>>>>

\* im.crop(box) for a box with right >= left and lower >= upper: what lies outside
\* the image is black, and transparent in a mode with alpha
crop_box(im, box) ==
    [mode |-> im.mode,
     size |-> <<box[3] - box[1], box[4] - box[2]>>,
     px |-> [p \in Pixels(box[3] - box[1], box[4] - box[2]) |->
                LET q == <<p[1] + box[1], p[2] + box[2]>>
                IN  IF q \in DOMAIN im.px THEN im.px[q]
                    ELSE [c |-> BLACK, a |-> IF im.mode = "RGBA" THEN 0 ELSE 255]]]

\* im.crop(None) is a copy of the image
crop(im, bbox) == IF bbox = <<>> THEN im ELSE crop_box(im, bbox[1])

\* im.convert('RGB'): the alpha band is dropped
convert_RGB(im) ==
    [mode |-> "RGB", size |-> im.size,
     px |-> [p \in DOMAIN im.px |-> [c |-> im.px[p].c, a |-> 255]]]

\* im.rotate(angle, expand=True) for the three angles of _correct_orientation,
\* counterclockwise
rotate(im, angle) ==
    LET w == im.size[1]
        h == im.size[2]
    IN  IF angle = 180
        THEN [im EXCEPT !.px = [p \in DOMAIN im.px |-> im.px[<<w - 1 - p[1], h - 1 - p[2]>>]]]
        ELSE [mode |-> im.mode, size |-> <<h, w>>,
              px |-> [p \in Pixels(h, w) |->
                         IF angle = 90 THEN im.px[<<w - 1 - p[2], p[1]>>]
                         ELSE im.px[<<p[2], h - 1 - p[1]>>]]]

----------------------------------------------------------------------------
(* The image files ImageProcessor is given.  A truncated file is opened by  *)
(* Image.open, which reads the header only; reading its pixels fails.       *)

ImageFile(kind, mode, orientation, transparent) ==
    [kind |-> kind, mode |-> mode, orientation |-> orientation, transparent |-> transparent]

ImageFiles ==
    [page_jpg      |-> ImageFile("image", "RGB", 1, {}),
     turned3_jpg   |-> ImageFile("image", "RGB", 3, {}),
     turned6_jpg   |-> ImageFile("image", "RGB", 6, {}),
     turned8_jpg   |-> ImageFile("image", "RGB", 8, {}),
     alpha_png     |-> ImageFile("image", "RGBA", 1, {<<1, 0>>}),
     truncated_jpg |-> ImageFile("truncated", "RGB", 1, {}),
     text_txt      |-> ImageFile("undecodable", "RGB", 1, {}),
     none_jpg      |-> ImageFile("missing", "RGB", 1, {})]

ImagePaths == DOMAIN ImageFiles

\* The colour of the pixel p of a page image
PageColour(p) == <<"page", p[1], p[2]>>

\* The pixels of the page image stored in file f: ImageSize wide, ImageSize - 1 high
page_image(f) ==
    [mode |-> f.mode, size |-> <<ImageSize, ImageSize - 1>>,
     px |-> [p \in Pixels(ImageSize, ImageSize - 1) |->
                [c |-> PageColour(p), a |-> IF p \in f.transparent THEN 0 ELSE 255]]]

\* A raster the call has opened or created, and whether it has been closed
Raster(name) == [name |-> name, closed |-> FALSE]

close(rasters, name) ==
    [k \in DOMAIN rasters |->
        IF rasters[k].name = name THEN [rasters[k] EXCEPT !.closed = TRUE] ELSE rasters[k]]

\* Image.open(image_path)
Image_open(image_path) ==
    LET f == ImageFiles[image_path]
    IN  IF f.kind = "missing"
        THEN [exception |-> "FileNotFoundError", rasters |-> <<>>]
        ELSE IF f.kind = "undecodable"
        THEN [exception |-> "UnidentifiedImageError", rasters |-> <<>>]
        ELSE [exception |-> "None", rasters |-> <<Raster("opened")>>,
              name |-> "opened", loads |-> f.kind = "image", image |-> page_image(f)]

\* The angle _correct_orientation rotates by for the orientation of the EXIF data
rotation(orientation) ==
    IF orientation = 3 THEN 180
    ELSE IF orientation = 6 THEN 270
    ELSE IF orientation = 8 THEN 90
    ELSE 0

\* ImageProcessor._correct_orientation: rotate returns a new image, the image it was
\* given stays as it is; an OSError of rotate is not among the errors it catches
correct_orientation(opened, orientation) ==
    IF rotation(orientation) = 0 THEN opened
    ELSE IF ~opened.loads THEN [exception |-> "OSError", rasters |-> opened.rasters]
    ELSE [exception |-> "None", rasters |-> Append(opened.rasters, Raster("rotated")),
          name |-> "rotated", loads |-> TRUE,
          image |-> rotate(opened.image, rotation(orientation))]

\* _load_image once Image.open has returned or raised
load_image_opened(opened, orientation) ==
    IF opened.exception # "None" THEN opened ELSE correct_orientation(opened, orientation)

\* ImageProcessor._load_image
load_image(image_path) ==
    load_image_opened(Image_open(image_path), ImageFiles[image_path].orientation)

----------------------------------------------------------------------------
(* process_images.py: ImageProcessor.  A call gives the exception that      *)
(* leaves it, the image it returns, the instance as it leaves it and the    *)
(* rasters it has opened or created.                                        *)

ImageProcessException == "ImageProcessException"

\* Any handler of extract_line_from_image: the path is recorded, ImageProcessException
\* raised
extract_except(ip, in_path, rasters) ==
    [exception |-> ImageProcessException, value |-> None,
     processor |-> [ip EXCEPT !.failed_processing = Append(@, in_path)],
     rasters |-> rasters]

\* baseline_points + coordinates: a list, or TypeError when one of them is None
list_add(a, b) ==
    IF a = None \/ b = None THEN [exception |-> "TypeError", value |-> <<>>]
    ELSE [exception |-> "None", value |-> a[1] \o b[1]]

\* Coordinate.get_bbox(baseline_points + coordinates)
get_bbox_of(points) ==
    IF points.exception # "None" THEN points ELSE get_bbox(points.value)

\* Coordinate.get_width(baseline_points): iterating over None is a TypeError
get_width_of(baseline_points) ==
    IF baseline_points = None THEN [exception |-> "TypeError", value |-> <<>>]
    ELSE get_width(baseline_points[1])

\* extract_line_from_image from img.crop(bbox) on: crop reads the pixels of the file
extract_cropped(ip, in_path, img, bbox) ==
    IF bbox.exception # "None" \/ ~img.loads THEN extract_except(ip, in_path, img.rasters)
    ELSE [exception |-> "None",
          value |-> Some(crop_box(img.image, bbox.value)),
          processor |-> ip,
          rasters |-> close(Append(img.rasters, Raster("image_line")), img.name)]

\* extract_line_from_image once _load_image has returned or raised
extract_loaded(ip, baseline_points, coords, in_path, img) ==
    IF img.exception # "None" THEN extract_except(ip, in_path, img.rasters)
    ELSE extract_cropped(ip, in_path, img, get_bbox_of(list_add(baseline_points, coords)))

\* The min_width filter with a line as wide as min_width rejected as well
extract_measured_rejects_equal(ip, baseline_points, coords, in_path, min_width, width) ==
    IF width.exception # "None" THEN extract_except(ip, in_path, <<>>)
    ELSE IF width.value <= min_width[1]
    THEN extract_except([ip EXCEPT !.too_short = Append(@, in_path),
                                   !.failed_processing = Append(@, in_path)],
                        in_path, <<>>)
    ELSE extract_loaded(ip, baseline_points, coords, in_path, load_image(in_path))

\* The min_width filter of extract_line_from_image, width being what get_width returned
\* or raised: the ImageProcessException of a line too short is raised inside the try
\* block and meets the handler of Exception
extract_measured(ip, baseline_points, coords, in_path, min_width, width) ==
    IF width.exception # "None" THEN extract_except(ip, in_path, <<>>)
    ELSE IF width.value < min_width[1]
    THEN extract_except([ip EXCEPT !.too_short = Append(@, in_path),
                                   !.failed_processing = Append(@, in_path)],
                        in_path, <<>>)
    ELSE extract_loaded(ip, baseline_points, coords, in_path, load_image(in_path))

\* ImageProcessor.extract_line_from_image
extract_line_from_image(ip, baseline_points, coords, in_path, min_width) ==
    IF min_width # None /\ min_width[1] # 0
    THEN extract_measured(ip, baseline_points, coords, in_path, min_width,
                          get_width_of(baseline_points))
    ELSE extract_loaded(ip, baseline_points, coords, in_path, load_image(in_path))

\* The handlers of crop_line_from_image: FileNotFoundError, UnidentifiedImageError,
\* ValueError and TypeError are recorded and become ImageProcessException, any other
\* exception leaves the call as it is
crop_except(ip, e, image_path, rasters) ==
    IF e \in {"FileNotFoundError", "UnidentifiedImageError", "ValueError", "TypeError"}
    THEN [exception |-> ImageProcessException, value |-> None,
          processor |-> [ip EXCEPT !.failed_processing = Append(@, image_path)],
          rasters |-> rasters]
    ELSE [exception |-> e, value |-> None, processor |-> ip, rasters |-> rasters]

\* crop_line_from_image with the cropped image filled with transparent black
crop_converted_black(ip, img, cutout, rasters) ==
    [exception |-> "None",
     value |-> Some(convert_RGB(paste(Image_new("RGBA", cutout.size, [c |-> BLACK, a |-> 0]),
                                      cutout, mask_band(cutout)))),
     processor |-> ip,
     rasters |-> close(close(rasters \o <<Raster("cropped_rgba"), Raster("cropped_image")>>,
                             "new_image"), img.name)]

\* crop_line_from_image from the white cropped_image on
crop_converted(ip, img, cutout, rasters) ==
    [exception |-> "None",
     value |-> Some(convert_RGB(paste(Image_new("RGBA", cutout.size, [c |-> WHITE, a |-> 255]),
                                      cutout, mask_band(cutout)))),
     processor |-> ip,
     rasters |-> close(close(rasters \o <<Raster("cropped_rgba"), Raster("cropped_image")>>,
                             "new_image"), img.name)]

\* crop_line_from_image from new_image.getbbox() on
crop_pasted(ip, img, new_image, rasters) ==
    crop_converted(ip, img, crop(new_image, getbbox(new_image)),
                   Append(rasters, Raster("cutout")))

\* crop_line_from_image from the mask on: new_image.paste(img, ...) reads the pixels of
\* the file
crop_drawn(ip, xy, image_path, img, new_image, rasters) ==
    IF ~img.loads THEN crop_except(ip, "OSError", image_path, Append(rasters, Raster("mask")))
    ELSE crop_pasted(ip, img,
                     paste(new_image, img.image,
                           mask_band(draw_polygon(Image_new("L", img.image.size,
                                                            [c |-> 0, a |-> 0]),
                                                  xy, [c |-> 255, a |-> 255]))),
                     Append(rasters, Raster("mask")))

\* crop_line_from_image once _load_image has returned or raised: draw.polygon wants a
\* list of at least two coords
crop_loaded(ip, coords, image_path, img) ==
    IF img.exception # "None" THEN crop_except(ip, img.exception, image_path, img.rasters)
    ELSE IF coords = None \/ Len(coords[1]) < 2
    THEN crop_except(ip, "TypeError", image_path, Append(img.rasters, Raster("new_image")))
    ELSE crop_drawn(ip, coords[1], image_path, img,
                    draw_polygon(Image_new("RGBA", img.image.size, [c |-> WHITE, a |-> 0]),
                                 coords[1], [c |-> BLACK, a |-> 255]),
                    Append(img.rasters, Raster("new_image")))

\* ImageProcessor.crop_line_from_image
crop_line_from_image(ip, coords, image_path) ==
    crop_loaded(ip, coords, image_path, load_image(image_path))

----------------------------------------------------------------------------
(* ImageProcessor driven on its own: extract_line_from_image and            *)
(* crop_line_from_image called on one instance with any of the arguments    *)
(* below                                                                    *)

\* A baseline of width 1, an empty baseline and None
BaselineArguments ==
    {None, Some(<<>>), Some(<<Coordinate(0, 1), Coordinate(1, 1)>>)}

\* An outline that reaches beyond the page image, an empty one and None
CoordinateArguments ==
    {None, Some(<<>>), Some(<<Coordinate(1, 0), Coordinate(ImageSize, ImageSize)>>)}

MinWidths == {None, Some(0), Some(1), Some(2)}

\* A rectangle, a single point, an empty list and None
PolygonArguments ==
    {None, Some(<<>>), Some(<<<<0, 0>>>>),
     Some(<<<<0, 0>>, <<ImageSize - 1, 0>>, <<ImageSize - 1, 1>>, <<0, 1>>>>)}

InitImage ==
    /\ pc = "idle"
    /\ stop_on_fail = TRUE
    /\ page_xml_list = <<>>
    /\ i = 0
    /\ processed = <<>>
    /\ raised = "None"
    /\ state = PreprocessState
    /\ progressStatus = PreprocessState
    /\ db = <<>>
    /\ image_processor = ImageProcessor
    /\ image_downloader = ImageDownloader
    /\ manifest_process = NoFile
    /\ manifest_download = NoFile
    /\ line = [line_text |-> <<>>, custom_attributes |-> <<>>]
    /\ result = <<>>
    /\ xml_file = <<>>
    /\ parser = <<>>
    /\ coordinates = <<>>
    /\ returned = <<>>
    /\ preprocessor = <<>>
    /\ task = Idle(0)
    /\ thread = <<>>
    /\ events = <<>>
    /\ document = NoDocument(0)
    /\ gt_dict = <<>>
    /\ out_path = [images |-> {}, gt_txt |-> <<>>]

\* A call of the ImageProcessor with the arguments args, r being what it does; calls
\* are followed while failed_processing has fewer than MaxFailures entries
Processed(op, args, r) ==
    /\ Len(image_processor.failed_processing) < MaxFailures
    /\ image_processor' = r.processor
    /\ returned' = <<[op |-> op, args |-> args, exception |-> r.exception,
                      value |-> r.value, rasters |-> r.rasters]>>
    /\ UNCHANGED <<pc, stop_on_fail, page_xml_list, i, processed, raised, state,
                   progressStatus, db, image_downloader, manifest_process,
                   manifest_download, lineVars, xml_file, parser, coordinates, processorVars, documentVars>>

ExtractLineFromImage ==
    \E b \in BaselineArguments, c \in CoordinateArguments, p \in ImagePaths, m \in MinWidths :
        Processed("extract_line_from_image",
                  [baseline_points |-> b, coordinates |-> c, in_path |-> p, min_width |-> m],
                  extract_line_from_image(image_processor, b, c, p, m))

CropLineFromImage ==
    \E c \in PolygonArguments, p \in ImagePaths :
        Processed("crop_line_from_image",
                  [coordinates |-> c, image_path |-> p],
                  crop_line_from_image(image_processor, c, p))

NextImage ==
    \/ ExtractLineFromImage
    \/ CropLineFromImage

SpecImage == InitImage /\ [][NextImage]_vars

----------------------------------------------------------------------------
(* Properties of ImageProcessor *)

Extracted == returned # <<>> /\ returned[1].op = "extract_line_from_image"

Cropped == returned # <<>> /\ returned[1].op = "crop_line_from_image"

\* The width max_x - min_x of the baseline of the call, where it has one
HasWidth(args) == args.baseline_points # None /\ args.baseline_points[1] # <<>>

WidthOf(args) ==
    LET xs == {args.baseline_points[1][k].x : k \in DOMAIN args.baseline_points[1]}
    IN  CHOOSE w \in 0..(2 * ImageSize) : \E a \in xs, b \in xs :
            /\ w = b - a
            /\ \A x \in xs : a <= x /\ x <= b

\* The call has a threshold and a baseline narrower than it
TooShort(args) ==
    /\ args.min_width # None
    /\ HasWidth(args)
    /\ WidthOf(args) < args.min_width[1]

\* The call has no threshold, or a baseline at least as wide as it
WideEnough(args) ==
    \/ args.min_width = None
    \/ HasWidth(args) /\ WidthOf(args) >= args.min_width[1]

C21_Rejected ==
    Extracted /\ TooShort(returned[1].args) =>
        /\ returned[1].exception = ImageProcessException
        /\ returned[1].value = None
        /\ returned[1].rasters = <<>>
        /\ returned[1].args.in_path \in Range(image_processor.failed_processing)
        /\ returned[1].args.in_path \in Range(image_processor.too_short)
        /\ returned[1].args.in_path \notin Range(image_downloader.failed_downloads)

C21_NotRejected ==
    Extracted' /\ WideEnough(returned'[1].args) =>
        image_processor'.too_short = image_processor.too_short

\* C21: extract_line_from_image with a threshold min_width and a baseline narrower than
\* it returns no image and opens none, raises ImageProcessException and has the image
\* path in failed_processing and too_short and in no list of failed downloads; with
\* no threshold or a baseline at least min_width wide, the call adds nothing to too_short
C21_MinWidthFilter == []C21_Rejected /\ [][C21_NotRejected]_vars

C21_Witness ==
    /\ Extracted
    /\ returned[1].args.min_width = Some(2)
    /\ returned[1].args.baseline_points = Some(<<Coordinate(0, 1), Coordinate(1, 1)>>)
    /\ returned[1].args.in_path = "page_jpg"
    /\ returned[1].exception = ImageProcessException
    /\ image_processor.too_short # <<>>


\* The path argument of the last call of the ImageProcessor
PathOf(call) ==
    IF call.op = "extract_line_from_image" THEN call.args.in_path ELSE call.args.image_path

\* C22: a call of extract_line_from_image or crop_line_from_image that fails raises
\* ImageProcessException and has appended its image path to failed_processing
C22_EveryFailureRecorded ==
    (Extracted \/ Cropped) /\ returned[1].exception # "None" =>
        /\ returned[1].exception = ImageProcessException
        /\ PathOf(returned[1]) \in Range(image_processor.failed_processing)

\* The same for extract_line_from_image alone, whose last handler takes every Exception
C22_ExtractFailureRecorded ==
    Extracted /\ returned[1].exception # "None" =>
        /\ returned[1].exception = ImageProcessException
        /\ PathOf(returned[1]) \in Range(image_processor.failed_processing)


----------------------------------------------------------------------------
(* ImageDownloader driven on its own: fetch_image called for the image of   *)
(* any document, the request meeting any of the outcomes below              *)

\* requests.get times out, cannot connect, or raise_for_status meets an error status
FailedRequests == {"timeout", "connection_error", "http_error"}

FetchOutcomes == {"ok", "write_error"} \cup FailedRequests

FetchImage ==
    /\ Len(image_downloader.successes) + Len(image_downloader.failed_processing) < MaxDocs
    /\ \E k \in 1..MaxDocs, outcome \in FetchOutcomes :
         /\ image_downloader' = fetch_image(image_downloader, k, [fetch |-> outcome]).downloader
         /\ returned' = <<[op |-> "fetch_image",
                           args |-> [image_file_name |-> ImagePath(k), request |-> outcome],
                           exception |-> fetch_image(image_downloader, k,
                                                     [fetch |-> outcome]).exception]>>
    /\ UNCHANGED <<pc, stop_on_fail, page_xml_list, i, processed, raised, state,
                   progressStatus, db, image_processor, manifest_process,
                   manifest_download, lineVars, xml_file, parser, coordinates, processorVars, documentVars>>

NextDownloader == FetchImage

SpecDownloader == InitImage /\ [][NextDownloader]_vars

\* C23: when the HTTP request for a page image fails, fetch_image has raised
\* ImageFetchException, the image is in failed_downloads and the call has added
\* nothing to successes
C23_FailedRequestRecorded ==
    returned # <<>> /\ returned[1].op = "fetch_image"
                    /\ returned[1].args.request \in FailedRequests =>
        /\ returned[1].exception = "ImageFetchException"
        /\ returned[1].args.image_file_name \in Range(image_downloader.failed_downloads)
        /\ image_downloader.successes = <<>>
               \/ image_downloader.successes[Len(image_downloader.successes)]
                      # returned[1].args.image_file_name


----------------------------------------------------------------------------
(* crop_line_from_image applied once to any image file and any convex       *)
(* quadrilateral with corners on the grid                                   *)

GridPoints == (0..(ImageSize - 1)) \X (0..(ImageSize - 1))

\* The convex quadrilaterals with corners on the grid, listed from their least corner
\* on with the inside on the same hand of every edge
Quadrilaterals ==
    {q \in GridPoints \X GridPoints \X GridPoints \X GridPoints :
        /\ cross(q[1], q[2], q[3]) > 0
        /\ cross(q[2], q[3], q[4]) > 0
        /\ cross(q[3], q[4], q[1]) > 0
        /\ cross(q[4], q[1], q[2]) > 0
        /\ \A k \in 2..4 : q[1][1] < q[k][1] \/ (q[1][1] = q[k][1] /\ q[1][2] < q[k][2])}

CropQuadrilateral ==
    /\ returned = <<>>
    /\ \E q \in Quadrilaterals, p \in ImagePaths :
         Processed("crop_line_from_image", [coordinates |-> Some(q), image_path |-> p],
                   crop_line_from_image(image_processor, Some(q), p))

NextCrop == CropQuadrilateral

SpecCrop == InitImage /\ [][NextCrop]_vars

\* The image the call has loaded, turned as its EXIF orientation says
Source == load_image(returned[1].args.image_path).image

Outline == returned[1].args.coordinates[1]

\* The call returned the crop of a quadrilateral that lies inside the image
CroppedInside ==
    /\ Cropped
    /\ returned[1].exception = "None"
    /\ \A k \in DOMAIN Outline : Outline[k] \in DOMAIN Source.px

\* p is inside the outline or on it
Inside(p) ==
    \A k \in DOMAIN Outline :
        cross(Outline[k], Outline[IF k = Len(Outline) THEN 1 ELSE k + 1], p) >= 0

Left == CHOOSE v \in 0..ImageSize : Least(v, {Outline[k][1] : k \in DOMAIN Outline})

Upper == CHOOSE v \in 0..ImageSize : Least(v, {Outline[k][2] : k \in DOMAIN Outline})

Right == CHOOSE v \in 0..ImageSize : Greatest(v, {Outline[k][1] : k \in DOMAIN Outline})

Lower == CHOOSE v \in 0..ImageSize : Greatest(v, {Outline[k][2] : k \in DOMAIN Outline})

\* The returned image is an opaque RGB image as large as the bounding box of the
\* outline, with the source pixel inside the outline and white outside it
IsPolygonCrop(im) ==
    /\ im.mode = "RGB"
    /\ im.size = <<Right - Left + 1, Lower - Upper + 1>>
    /\ \A p \in DOMAIN im.px :
         /\ im.px[p].a = 255
         /\ im.px[p].c = IF Inside(<<p[1] + Left, p[2] + Upper>>)
                         THEN Source.px[<<p[1] + Left, p[2] + Upper>>].c
                         ELSE WHITE

Opaque(im) == \A p \in DOMAIN im.px : im.px[p].a = 255

----------------------------------------------------------------------------
(* config.py: PreprocessorConfig.  split_train_ratio is a number of         *)
(* RatioUnit-ths, so that 1.0 is RatioUnit.                                 *)

RatioUnit == 2

RAW_XML == "raw_xml"

\* The values of ExportMode
ExportModes == {RAW_XML, "text", "region", "line", "window"}

EXPORT_MODES_REQUIRING_XML_PARSING == {"line", "region", "text", "window"}

ValueError == [exception |-> "ValueError", value |-> None]

\* _validate_export_mode
validate_export_mode(c) ==
    IF c.export_mode \notin ExportModes THEN "ValueError" ELSE "None"

\* _validate_line_dimensions
validate_line_dimensions(c) ==
    IF c.min_width_line # None /\ c.min_width_line[1] <= 0 THEN "ValueError"
    ELSE IF c.min_height_line # None /\ c.min_height_line[1] <= 0 THEN "ValueError"
    ELSE "None"

\* _validate_split_ratio with 0.0 accepted
validate_split_ratio_from_zero(c) ==
    IF c.split_train_ratio # None
       /\ ~(0 <= c.split_train_ratio[1] /\ c.split_train_ratio[1] <= RatioUnit)
    THEN "ValueError" ELSE "None"

\* _validate_split_ratio
validate_split_ratio(c) ==
    IF c.split_train_ratio # None
       /\ ~(0 < c.split_train_ratio[1] /\ c.split_train_ratio[1] <= RatioUnit)
    THEN "ValueError" ELSE "None"

\* _validate_segmentation
validate_segmentation(c) ==
    IF c.segment /\ c.segmenter_config = None THEN "ValueError" ELSE "None"

\* PreprocessorConfig(...): the dataclass __init__ stores the fields, __post_init__
\* validates them in this order
PreprocessorConfig(c) ==
    IF validate_export_mode(c) # "None" THEN ValueError
    ELSE IF validate_line_dimensions(c) # "None" THEN ValueError
    ELSE IF validate_split_ratio(c) # "None" THEN ValueError
    ELSE IF validate_segmentation(c) # "None" THEN ValueError
    ELSE [exception |-> "None", value |-> Some(c)]

\* PreprocessorConfig.requires_xml_parsing
requires_xml_parsing(c) ==
    IF c.export_mode \notin ExportModes THEN ValueError
    ELSE [exception |-> "None", value |-> c.export_mode \in EXPORT_MODES_REQUIRING_XML_PARSING]

\* The arguments a PreprocessorConfig is constructed with
ConfigArguments ==
    [export_mode : ExportModes \cup {"invalid_mode", "LINE", ""},
     min_width_line : {None} \cup {Some(n) : n \in (0 - 1)..2},
     min_height_line : {None} \cup {Some(n) : n \in (0 - 1)..2},
     split_train_ratio : {None} \cup {Some(n) : n \in (0 - 1)..(RatioUnit + 1)},
     segment : BOOLEAN,
     segmenter_config : {None, Some("SegmenterConfig")}]

\* PreprocessorConfig(**c)
ConstructConfig ==
    /\ returned = <<>>
    /\ \E c \in ConfigArguments :
         returned' = <<[op |-> "PreprocessorConfig", args |-> c,
                        exception |-> PreprocessorConfig(c).exception,
                        value |-> PreprocessorConfig(c).value]>>
    /\ UNCHANGED <<orchVars, lineVars, xml_file, parser, coordinates, processorVars, documentVars>>

\* config.requires_xml_parsing read on the config that was constructed
RequiresXmlParsing ==
    /\ returned # <<>>
    /\ returned[1].op = "PreprocessorConfig"
    /\ returned[1].exception = "None"
    /\ returned' = <<[op |-> "requires_xml_parsing", args |-> returned[1].value[1],
                      exception |-> requires_xml_parsing(returned[1].value[1]).exception,
                      value |-> requires_xml_parsing(returned[1].value[1]).value]>>
    /\ UNCHANGED <<orchVars, lineVars, xml_file, parser, coordinates, processorVars, documentVars>>

NextConfig ==
    \/ ConstructConfig
    \/ RequiresXmlParsing

SpecConfig == InitImage /\ [][NextConfig]_vars

\* What the claim lists as the invalid configurations
Rejected(c) ==
    \/ c.export_mode \notin {"raw_xml", "text", "region", "line", "window"}
    \/ c.min_width_line # None /\ c.min_width_line[1] <= 0
    \/ c.min_height_line # None /\ c.min_height_line[1] <= 0
    \/ c.split_train_ratio # None
         /\ (c.split_train_ratio[1] <= 0 \/ c.split_train_ratio[1] > RatioUnit)
    \/ c.segment /\ c.segmenter_config = None

\* C27: constructing a PreprocessorConfig raises ValueError and yields no object exactly
\* when the export mode is none of the five, a line dimension is a number <= 0, the
\* split ratio is outside (0, 1], or segment is set without a segmenter_config;
\* otherwise the object keeps the given values, and requires_xml_parsing is true for
\* every export mode but raw_xml
C27_ConfigValidation ==
    /\ returned # <<>> /\ returned[1].op = "PreprocessorConfig" =>
         IF Rejected(returned[1].args)
         THEN returned[1].exception = "ValueError" /\ returned[1].value = None
         ELSE returned[1].exception = "None" /\ returned[1].value = Some(returned[1].args)
    /\ returned # <<>> /\ returned[1].op = "requires_xml_parsing" =>
         /\ returned[1].exception = "None"
         /\ returned[1].value = (returned[1].args.export_mode # "raw_xml")

C27_Witness ==
    /\ returned # <<>>
    /\ returned[1].op = "PreprocessorConfig"
    /\ returned[1].args.export_mode = "line"
    /\ returned[1].args.split_train_ratio = Some(0)
    /\ returned[1].args.min_width_line = Some(1)
    /\ returned[1].exception = "ValueError"


----------------------------------------------------------------------------
(* preprocess.py of the unified preprocessor: Preprocessor, ZipPreprocessor *)
(* and HuggingFacePreprocessor.  The factory, the converters and the        *)
(* segmenter are collaborators: a call on them is an event, and whether it  *)
(* raises is chosen by the environment.                                     *)

MaxRuns == 2

INITIALIZED == "initialized"

COMPLETED == "completed"

RepoUrl == "https://huggingface.co/datasets/repo"

\* A call on a collaborator in run number run of preprocess(): the converter it creates
\* or is made on, the dataset it is given or returns, and the exception it raises
Event(op, run, converter, dataset, exception) ==
    [op |-> op, run |-> run, converter |-> converter, dataset |-> dataset,
     exception |-> exception]

Count(ev, op) == Cardinality({k \in DOMAIN ev : ev[k].op = op})

\* Preprocessor._set_state
set_state(p, s) == [p EXCEPT !.state = s]

\* Preprocessor.__init__ once _initialize_segmenter_config has returned
NewPreprocessor(kind, config) ==
    [kind |-> kind, config |-> config, state |-> INITIALIZED, dataset |-> None,
     converter |-> None, segmenter_config |-> config.segmenter_config]

\* create_xmlconverter of ZipPreprocessor and HuggingFacePreprocessor: the factory is
\* given self._dataset; when it raises, the state is FAILED and ValueError is raised
create_xmlconverter(p, ev, run, fails) ==
    IF fails
    THEN [exception |-> "ValueError", preprocessor |-> set_state(p, FAILED),
          events |-> Append(ev, Event("create_converter", run, None, p.dataset, "Exception"))]
    ELSE [exception |-> "None",
          preprocessor |-> [p EXCEPT !.converter = Some(Count(ev, "create_converter") + 1)],
          events |-> Append(ev, Event("create_converter", run,
                                      Some(Count(ev, "create_converter") + 1),
                                      p.dataset, "None"))]

\* The property converter: the converter is created when there is none
converter(p, ev, run, fails) ==
    IF p.converter = None THEN create_xmlconverter(p, ev, run, fails)
    ELSE [exception |-> "None", preprocessor |-> p, events |-> ev]

\* What a call in the worker thread leaves: the exception, the value, the instance and
\* the events
Leaves(exception, value, p, ev) ==
    [exception |-> exception, value |-> value, preprocessor |-> p, events |-> ev]

\* _segment_images_sync from segmenter.segment_dataset on: the dataset it returns is
\* kept and the converter dropped
segmented(p, ev, run, fail) ==
    IF fail = "segment_dataset"
    THEN Leaves("Exception", None, p,
              Append(ev, Event("segment_dataset", run, p.converter, None, "Exception")))
    ELSE Leaves("None", None,
              [p EXCEPT !.dataset = Some(Count(ev, "segment_dataset") + 1),
                        !.converter = None],
              Append(ev, Event("segment_dataset", run, p.converter,
                               Some(Count(ev, "segment_dataset") + 1), "None")))

\* _segment_images_sync from self.converter.convert(export_mode='raw_xml', ...) on, c
\* being what the property converter has done
converted(c, run, fail) ==
    IF c.exception # "None" THEN Leaves(c.exception, None, c.preprocessor, c.events)
    ELSE IF fail = "convert"
    THEN Leaves("Exception", None, c.preprocessor,
              Append(c.events, Event("convert", run, c.preprocessor.converter, None,
                                     "Exception")))
    ELSE segmented(c.preprocessor,
                   Append(c.events, Event("convert", run, c.preprocessor.converter, None,
                                          "None")),
                   run, fail)

\* Preprocessor._segment_images_sync
segment_images_sync(p, ev, run, fail) ==
    IF p.segmenter_config = None THEN Leaves("ValueError", None, set_state(p, FAILED), ev)
    ELSE IF fail = "SegmenterYOLO"
    THEN Leaves("Exception", None, p, Append(ev, Event("SegmenterYOLO", run, None, None,
                                                      "Exception")))
    ELSE converted(converter(p, Append(ev, Event("SegmenterYOLO", run, None, None, "None")),
                             run, fail = "create_converter"),
                   run, fail)

\* _convert_and_upload_sync from self.converter.convert_and_upload(...) on
uploaded(c, run, fail) ==
    IF c.exception # "None" THEN Leaves(c.exception, None, c.preprocessor, c.events)
    ELSE IF fail = "convert_and_upload"
    THEN Leaves("Exception", None, c.preprocessor,
              Append(c.events, Event("convert_and_upload", run, c.preprocessor.converter,
                                     None, "Exception")))
    ELSE Leaves("None", Some(RepoUrl), c.preprocessor,
              Append(c.events, Event("convert_and_upload", run, c.preprocessor.converter,
                                     None, "None")))

\* Preprocessor._convert_and_upload_sync
convert_and_upload_sync(p, ev, run, fail) ==
    uploaded(converter(p, ev, run, fail = "create_converter"), run, fail)

\* The function asyncio.to_thread runs
run_sync(op, p, ev, run, fail) ==
    IF op = "segment_images" THEN segment_images_sync(p, ev, run, fail)
    ELSE convert_and_upload_sync(p, ev, run, fail)

\* The call of the collaborators that the environment lets raise in one run of the thread
Failures(op) ==
    IF op = "segment_images"
    THEN {"none", "SegmenterYOLO", "create_converter", "convert", "segment_dataset"}
    ELSE {"none", "create_converter", "convert_and_upload"}

----------------------------------------------------------------------------
(* A preprocessor constructed on a valid configuration and preprocess()     *)
(* called on it up to MaxRuns times.  preprocess() waits for the worker     *)
(* thread at each await; the task that runs it can be cancelled there, and  *)
(* the thread then runs on by itself.                                       *)

\* The configurations that PreprocessorConfig accepts, and a segmenter_config given as
\* a dict that SegmenterConfig rejects
ProcessorConfigs ==
    {c \in [export_mode : {"line", RAW_XML},
            min_width_line : {None},
            min_height_line : {None},
            split_train_ratio : {None},
            segment : BOOLEAN,
            segmenter_config : {None, Some("SegmenterConfig"), Some("invalid_dict")}] :
        PreprocessorConfig(c).exception = "None"}

Running(op) == <<[op |-> op, pc |-> "running", exception |-> "None", value |-> None]>>

Done(op, r) == <<[op |-> op, pc |-> "done", exception |-> r.exception, value |-> r.value]>>

\* ZipPreprocessor(input_path, config) or HuggingFacePreprocessor(input_path, config):
\* _initialize_segmenter_config raises on a dict that SegmenterConfig rejects
ConstructPreprocessor ==
    /\ preprocessor = None
    /\ returned = <<>>
    /\ \E kind \in {"ZipPreprocessor", "HuggingFacePreprocessor"}, c \in ProcessorConfigs :
         IF c.segmenter_config = Some("invalid_dict")
         THEN /\ preprocessor' = None
              /\ \E e \in {"ValidationError", "TypeError"} : returned' = Call(kind, e, None)
         ELSE /\ preprocessor' = Some(NewPreprocessor(kind, c))
              /\ returned' = Call(kind, "None", None)
    /\ UNCHANGED <<orchVars, lineVars, documentVars, xml_file, parser, coordinates, task, thread, events>>

\* preprocess() up to its first await: segment_images() when config.segment is set,
\* _convert_and_upload() otherwise
PreprocessStart ==
    /\ preprocessor # None
    /\ task.pc = "idle"
    /\ thread = None
    /\ task.runs < MaxRuns
    /\ preprocessor' = Some(set_state(preprocessor[1], IN_PROGRESS))
    /\ task' = [pc |-> IF preprocessor[1].config.segment THEN "segment_images"
                       ELSE "convert_and_upload",
                runs |-> task.runs + 1]
    /\ thread' = Running(task'.pc)
    /\ events' = Append(events, Event("preprocess", task.runs + 1, None, None, "None"))
    /\ returned' = <<>>
    /\ UNCHANGED <<orchVars, lineVars, documentVars, xml_file, parser, coordinates>>

\* What the thread leaves, r being what its function did: a thread nobody waits for
\* any more ends unnoticed
ThreadLeaves(r) ==
    /\ preprocessor' = Some(r.preprocessor)
    /\ events' = r.events
    /\ thread' = IF task.pc = "idle" THEN None ELSE Done(thread[1].op, r)
    /\ UNCHANGED <<orchVars, lineVars, documentVars, xml_file, parser, coordinates, returned, task>>

\* The worker thread runs _segment_images_sync or _convert_and_upload_sync
ThreadRun ==
    /\ thread # None
    /\ thread[1].pc = "running"
    /\ \E fail \in Failures(thread[1].op) :
         ThreadLeaves(run_sync(thread[1].op, preprocessor[1], events, task.runs, fail))

\* preprocess() ends: the state is set and the URL returned or the exception raised again
PreprocessEnds(s, exception, value) ==
    /\ preprocessor' = Some(set_state(preprocessor[1], s))
    /\ task' = Idle(task.runs)
    /\ thread' = None
    /\ returned' = Call("preprocess", exception, value)
    /\ UNCHANGED <<orchVars, lineVars, documentVars, xml_file, parser, coordinates, events>>

\* preprocess() goes on after await self.segment_images(): an exception passes the
\* handler of segment_images and the handler of preprocess, both set FAILED
SegmentationAwaited ==
    /\ task.pc = "segment_images"
    /\ thread # None
    /\ thread[1].pc = "done"
    /\ IF thread[1].exception # "None"
       THEN PreprocessEnds(FAILED, thread[1].exception, None)
       ELSE /\ task' = [task EXCEPT !.pc = "convert_and_upload"]
            /\ thread' = Running("convert_and_upload")
            /\ UNCHANGED <<orchVars, lineVars, documentVars, xml_file, parser, coordinates, returned,
                           preprocessor, events>>

\* preprocess() goes on after await self._convert_and_upload()
UploadAwaited ==
    /\ task.pc = "convert_and_upload"
    /\ thread # None
    /\ thread[1].pc = "done"
    /\ IF thread[1].exception # "None"
       THEN PreprocessEnds(FAILED, thread[1].exception, None)
       ELSE PreprocessEnds(COMPLETED, "None", thread[1].value)

\* The task is cancelled while preprocess() waits: asyncio.CancelledError is raised at
\* the await, it is no Exception and passes both handlers; a thread that is still
\* running is not stopped
Cancel ==
    /\ task.pc # "idle"
    /\ task' = Idle(task.runs)
    /\ thread' = IF thread[1].pc = "done" THEN None ELSE thread
    /\ returned' = Call("preprocess", "CancelledError", None)
    /\ UNCHANGED <<orchVars, lineVars, documentVars, xml_file, parser, coordinates, preprocessor, events>>

NextProcessor ==
    \/ ConstructPreprocessor
    \/ PreprocessStart
    \/ ThreadRun
    \/ SegmentationAwaited
    \/ UploadAwaited
    \/ Cancel

SpecProcessor == InitImage /\ [][NextProcessor]_vars


----------------------------------------------------------------------------
(* Properties of the preprocessor *)

\* preprocess() has been called and has ended
Ended == task.pc = "idle" /\ returned # <<>> /\ returned[1].op = "preprocess"

\* convert_and_upload has returned in the run that has ended
Uploaded ==
    \E k \in DOMAIN events : /\ events[k].op = "convert_and_upload"
                             /\ events[k].run = task.runs
                             /\ events[k].exception = "None"

\* C25: the state is INITIALIZED after construction and IN_PROGRESS while preprocess()
\* waits for a step that has not failed; when preprocess() has ended the state is
\* COMPLETED exactly when it returned the URL of convert_and_upload and FAILED exactly
\* when it raised; COMPLETED needs a convert_and_upload that has returned
C25_StateFollowsOutcome ==
    /\ preprocessor # None /\ task.runs = 0 => preprocessor[1].state = INITIALIZED
    /\ task.pc # "idle" /\ thread[1].exception = "None" =>
         preprocessor[1].state = IN_PROGRESS
    /\ Ended =>
         /\ preprocessor[1].state = COMPLETED <=>
                returned[1].exception = "None" /\ returned[1].value = Some(RepoUrl)
         /\ preprocessor[1].state = FAILED <=> returned[1].exception # "None"
    /\ preprocessor # None /\ preprocessor[1].state = COMPLETED => Ended /\ Uploaded

\* The same with preprocess() raising an Exception: a cancelled preprocess() is left
\* aside
C25_StateFollowsException ==
    /\ preprocessor # None /\ task.runs = 0 => preprocessor[1].state = INITIALIZED
    /\ task.pc # "idle" /\ thread[1].exception = "None" =>
         preprocessor[1].state = IN_PROGRESS
    /\ Ended /\ returned[1].exception # "CancelledError" =>
         /\ preprocessor[1].state = COMPLETED <=>
                returned[1].exception = "None" /\ returned[1].value = Some(RepoUrl)
         /\ preprocessor[1].state = FAILED <=> returned[1].exception # "None"
    /\ preprocessor # None /\ preprocessor[1].state = COMPLETED => Ended /\ Uploaded


\* config.segment of the preprocessor that has been constructed
Segmenting == preprocessor # None /\ preprocessor[1].config.segment

\* Event s is a segment_dataset that has returned in the run of event k, before it
SegmentedBefore(s, k) ==
    /\ s < k
    /\ events[s].op = "segment_dataset"
    /\ events[s].run = events[k].run
    /\ events[s].exception = "None"

\* Event k is a step of segmentation that has raised: SegmenterYOLO, the creation of the
\* converter for the raw XML export, convert or segment_dataset
SegmentationFailed(k) ==
    /\ events[k].exception # "None"
    /\ \/ events[k].op \in {"SegmenterYOLO", "convert", "segment_dataset"}
       \/ /\ events[k].op = "create_converter"
          /\ ~ \E s \in DOMAIN events : SegmentedBefore(s, k)

\* The converter of convert_and_upload event k was created after segment_dataset event s
\* from the dataset that it returned, and is not the converter of the raw XML export
OnNewConverter(s, k) ==
    /\ \E c \in DOMAIN events : /\ s < c /\ c < k
                                /\ events[c].op = "create_converter"
                                /\ events[c].run = events[k].run
                                /\ events[c].converter = events[k].converter
                                /\ events[c].dataset = events[s].dataset
    /\ \A j \in DOMAIN events : events[j].op = "convert" /\ events[j].run = events[k].run =>
                                    events[j].converter # events[k].converter

\* With config.segment, convert_and_upload follows a segment_dataset that has returned
\* and is made on a converter created after it from the segmented dataset; after a
\* failed segmentation there is no convert_and_upload in the run; without
\* config.segment no step of segmentation is made
SegmentationOrdered ==
    /\ Segmenting =>
         \A k \in DOMAIN events :
            /\ events[k].op = "convert_and_upload" =>
                 \E s \in DOMAIN events : SegmentedBefore(s, k) /\ OnNewConverter(s, k)
            /\ SegmentationFailed(k) =>
                 ~ \E u \in DOMAIN events : /\ events[u].op = "convert_and_upload"
                                            /\ events[u].run = events[k].run
    /\ preprocessor # None /\ ~ preprocessor[1].config.segment =>
         \A k \in DOMAIN events :
            events[k].op \notin {"SegmenterYOLO", "convert", "segment_dataset"}

\* Segmentation has failed in the run of preprocess() that has ended
FailedSegmentationEnded ==
    /\ Segmenting /\ Ended /\ thread = None
    /\ \E k \in DOMAIN events : SegmentationFailed(k) /\ events[k].run = task.runs

\* C26: with config.segment set, segmentation has completed before convert_and_upload
\* starts and convert_and_upload is made on a converter created after segmentation from
\* the segmented dataset, the converter of the raw XML export being dropped; when
\* segmentation fails convert_and_upload is not made and the state is FAILED; without
\* config.segment segmentation is not made
C26_SegmentationBeforeUpload ==
    /\ SegmentationOrdered
    /\ FailedSegmentationEnded => preprocessor[1].state = FAILED

\* The same with the state looked at only when preprocess() has raised what
\* segmentation raised: a cancelled preprocess() is left aside
C26_SegmentationBeforeUploadUncancelled ==
    /\ SegmentationOrdered
    /\ FailedSegmentationEnded /\ returned[1].exception # "CancelledError" =>
         preprocessor[1].state = FAILED

\* A run with segmentation has uploaded on the converter of the segmented dataset
C26_Witness ==
    /\ Segmenting /\ Ended /\ preprocessor[1].state = COMPLETED
    /\ \E k \in DOMAIN events : events[k].op = "convert_and_upload" /\ events[k].run = 2


\* The raster that a call returns to its caller
ReturnedRaster(call) ==
    IF call.op = "extract_line_from_image" THEN "image_line" ELSE "cropped_image"

\* The rasters of the last call that are still open, the returned one left aside
LeftOpen ==
    {returned[1].rasters[k].name : k \in {j \in DOMAIN returned[1].rasters :
        /\ ~ returned[1].rasters[j].closed
        /\ ~ (/\ returned[1].exception = "None"
              /\ returned[1].rasters[j].name = ReturnedRaster(returned[1]))}}

\* C28: when extract_line_from_image or crop_line_from_image has returned or raised,
\* every raster it opened or created is closed, the source image and every canvas, mask
\* and cutout, and only the line image it returns is open
C28_RastersClosed == (Extracted \/ Cropped) => LeftOpen = {}

\* The same for an upright image that extract_line_from_image has cut a line from: the
\* source is closed and the line image is open
C28_ExtractedUprightClosed ==
    /\ Extracted
    /\ returned[1].exception = "None"
    /\ returned[1].args.in_path \in {"page_jpg", "alpha_png"}
    => /\ LeftOpen = {}
       /\ \E k \in DOMAIN returned[1].rasters :
            returned[1].rasters[k] = [name |-> "image_line", closed |-> FALSE]


----------------------------------------------------------------------------
(* preprocess_single_xml_file driven on its own, document after document,   *)
(* with its loop over the lines of the page followed line by line.  The     *)
(* page parser has returned the lines; each line has a baseline and an      *)
(* outline of at least one point, as process_lines_from_xml_file gives them. *)

\* The image file name of document n
DocumentName(n) == <<"p", ToString(n), ".", "j", "p", "g">>

\* A line whose outline is a rectangle and a line whose outline is a single point
LineOutlines ==
    [rectangle |-> <<Coordinate(0, 0), Coordinate(ImageSize - 1, 0),
                     Coordinate(ImageSize - 1, 1), Coordinate(0, 1)>>,
     point |-> <<Coordinate(1, 1)>>]

\* Line k of document n with the outline named
DocumentLine(n, k, outline) ==
    [line_number |-> <<ToString(k)>>,
     line_document |-> DocumentName(n),
     line_text |-> <<"t", ToString(k)>>,
     custom_attributes |-> <<>>,
     line_baseline |-> <<Coordinate(0, 0), Coordinate(1, 0)>>,
     line_coordinates |-> LineOutlines[outline]]

\* The pages of up to MaxLines lines, on an image file that is there or missing
Pages(n) ==
    {[image_file_name |-> DocumentName(n), file |-> f,
      lines |-> [k \in DOMAIN outlines |-> DocumentLine(n, k, outlines[k])]] :
        f \in {"page_jpg", "none_jpg"},
        outlines \in UNION {[1..len -> DOMAIN LineOutlines] : len \in 0..MaxLines}}

\* json.dumps of a text without characters to escape
json_dumps(text) == <<"\"">> \o text \o <<"\"">>

\* gt_dict[line_name] = text: a key that is there keeps its place
gt_dict_set(d, key, value) ==
    IF \E j \in DOMAIN d : d[j].name = key
    THEN [j \in DOMAIN d |-> IF d[j].name = key THEN [name |-> key, text |-> value] ELSE d[j]]
    ELSE Append(d, [name |-> key, text |-> value])

\* The text put into gt_dict for the line
gt_text(l, abbrev) == IF abbrev THEN expand_abbreviations(l).value ELSE l.line_text

\* [(coord.x, coord.y) for coord in line.line_coordinates]
tuples(coords) == [j \in DOMAIN coords |-> <<coords[j].x, coords[j].y>>]

\* The call of the ImageProcessor for a line: extract_line_from_image is called without
\* min_width
image_per_line(d, l) ==
    IF d.crop
    THEN crop_line_from_image(image_processor, Some(tuples(l.line_coordinates)), d.page.file)
    ELSE extract_line_from_image(image_processor, Some(l.line_baseline),
                                 Some(l.line_coordinates), d.page.file, None)

\* preprocess_single_xml_file is left: by an exception, or by returning
DocumentLeft(exception) ==
    /\ document' = NoDocument(document.n)
    /\ gt_dict' = <<>>
    /\ returned' = Call("preprocess_single_xml_file", exception, None)

\* preprocess_single_xml_file up to the loop: the page is built and its image fetched
PreprocessSingleXmlFile ==
    /\ document.pc = "idle"
    /\ document.n < MaxDocs
    /\ \E cropping \in BOOLEAN, abbreviating \in BOOLEAN, page \in Pages(document.n + 1),
          fetch \in {"ok", "write_error"} :
         /\ image_downloader' =
                fetch_image(image_downloader, document.n + 1, [fetch |-> fetch]).downloader
         /\ IF fetch = "ok"
            THEN /\ document' = [pc |-> "loop", n |-> document.n + 1, crop |-> cropping,
                                 abbrev |-> abbreviating, page |-> page, k |-> 1]
                 /\ gt_dict' = <<>>
                 /\ returned' = <<>>
            ELSE /\ document' = NoDocument(document.n + 1)
                 /\ gt_dict' = <<>>
                 /\ returned' = Call("preprocess_single_xml_file", "RuntimeError", None)
    /\ UNCHANGED <<pc, stop_on_fail, page_xml_list, i, processed, raised, state,
                   progressStatus, db, image_processor, manifest_process,
                   manifest_download, lineVars, xml_file, parser, coordinates,
                   processorVars, out_path>>

\* The rest of one turn of the loop, g being gt_dict with the line put in and r what
\* the ImageProcessor did: the line image is saved under the name of the line and
\* closed, or the exception leaves the call and gt_dict is lost
LineProcessed(name, g, r) ==
    /\ image_processor' = r.processor
    /\ IF r.exception = "None"
       THEN /\ out_path' = [out_path EXCEPT !.images = @ \cup {name}]
            /\ document' = [document EXCEPT !.k = @ + 1]
            /\ gt_dict' = g
            /\ UNCHANGED returned
       ELSE /\ Len(image_processor.failed_processing) < MaxFailures
            /\ DocumentLeft(r.exception)
            /\ UNCHANGED out_path

\* One turn of the loop over page.lines
ProcessLine ==
    /\ document.pc = "loop"
    /\ document.k <= Len(document.page.lines)
    /\ LineProcessed(get_output_filename(document.page.lines[document.k]).value,
                     gt_dict_set(gt_dict,
                                 get_output_filename(document.page.lines[document.k]).value,
                                 gt_text(document.page.lines[document.k], document.abbrev)),
                     image_per_line(document, document.page.lines[document.k]))
    /\ UNCHANGED <<pc, stop_on_fail, page_xml_list, i, processed, raised, state,
                   progressStatus, db, image_downloader, manifest_process,
                   manifest_download, lineVars, xml_file, parser, coordinates,
                   processorVars>>

\* Preprocessor._save_gt_dict: the rows of gt_dict are appended to gt.txt
save_gt_dict(d, out) ==
    [out EXCEPT !.gt_txt = @ \o [j \in DOMAIN d |->
                                    [name |-> d[j].name, text |-> json_dumps(d[j].text)]]]

\* The loop has ended: gt_dict is saved and preprocess_single_xml_file returns
SaveGtDict ==
    /\ document.pc = "loop"
    /\ document.k > Len(document.page.lines)
    /\ out_path' = save_gt_dict(gt_dict, out_path)
    /\ DocumentLeft("None")
    /\ UNCHANGED <<orchVars, lineVars, xml_file, parser, coordinates, processorVars>>

NextDocument ==
    \/ PreprocessSingleXmlFile
    \/ ProcessLine
    \/ SaveGtDict

SpecDocument == InitImage /\ [][NextDocument]_vars

----------------------------------------------------------------------------
(* Properties of the output directory *)

\* The rows of gt.txt with the name given
RowsOf(name) == {j \in DOMAIN out_path.gt_txt : out_path.gt_txt[j].name = name}

\* C29: when no document is being processed, every line image saved has exactly one
\* row in gt.txt and every row of gt.txt names a saved line image, also after a document
\* that failed at one of its later lines
C29_ManifestMatchesImages ==
    document.pc = "idle" =>
        /\ \A name \in out_path.images : Cardinality(RowsOf(name)) = 1
        /\ \A j \in DOMAIN out_path.gt_txt : out_path.gt_txt[j].name \in out_path.images

\* The half of it that holds at every moment: every row names a saved line image and no
\* line image has two rows
C29_RowsNameSavedImages ==
    /\ \A name \in out_path.images : Cardinality(RowsOf(name)) <= 1
    /\ \A j \in DOMAIN out_path.gt_txt : out_path.gt_txt[j].name \in out_path.images


\* The last call of the ImageProcessor has raised ImageProcessException and has added
\* its image path to failed_processing once
RecordedOnce ==
    (Extracted' \/ Cropped') /\ returned'[1].exception = ImageProcessException =>
        image_processor'.failed_processing =
            Append(image_processor.failed_processing, PathOf(returned'[1]))

\* C30: each rejected or failed call of extract_line_from_image or crop_line_from_image
\* that is recorded adds its image path exactly once to failed_processing, also when the
\* failure is a line too short
C30_OneEntryPerFailure == [][RecordedOnce]_vars

\* The same with the lines too short left aside
C30_OneEntryUnlessTooShort ==
    [][(Extracted' /\ TooShort(returned'[1].args)) \/ RecordedOnce]_vars

\* A line too short is recorded twice
C30_TooShortRecordedTwice ==
    [][Extracted' /\ TooShort(returned'[1].args) =>
          image_processor'.failed_processing =
              image_processor.failed_processing
                  \o <<returned'[1].args.in_path, returned'[1].args.in_path>>]_vars

\* get_page that raises ParseTextLinesException adds one entry to the failed_processing
\* of the PageParser
C30_OneEntryPerFailedDocument ==
    [][returned' # <<>> /\ returned'[1].op = "get_page"
       /\ returned'[1].exception = ParseTextLinesException =>
          Len(parser'[1].failed_processing) = Len(parser[1].failed_processing) + 1]_vars

=============================================================================
